---- MODULE Spec2Model ----
(***************************************************************************)
(* Deep clone of an object graph (koladata/internal/op_utils/deep_clone.cc)*)
(* driven by the two-phase traverser (op_utils/traverser.h), over a small  *)
(* family of source DataBags.                                              *)
(*                                                                         *)
(* A DataItem is a record [t, k, a, c, o]:                                 *)
(*   t = "missing" | "prim" | "dtype" | "obj"                              *)
(*   k = kind bits of an ObjectId ("obj", "list", "dict", "explicit",      *)
(*       "implicit"), "" otherwise                                         *)
(*   a = allocation base of an ObjectId, the value of a primitive, the id  *)
(*       of a DType                                                        *)
(*   c = capacity of the allocation of an ObjectId, 0 otherwise            *)
(*   o = offset of an ObjectId in its allocation, 0 otherwise              *)
(***************************************************************************)
EXTENDS Integers, Sequences, FiniteSets, TLC

\* ------------------------------------------------------------------------
\* Bounds
\* ------------------------------------------------------------------------
MaxCalls == 2

\* greatest number of different DTypes added to one aggregator
MaxSeenDTypes == 3

\* greatest size of a slice handed to CommonSchema
MaxSliceSize == 3

\* ------------------------------------------------------------------------
\* Identity model and DataItem
\* ------------------------------------------------------------------------
Missing == [t |-> "missing", k |-> "", a |-> 0, c |-> 0, o |-> 0]

Prim(n) == [t |-> "prim", k |-> "", a |-> n, c |-> 0, o |-> 0]

DType(id) == [t |-> "dtype", k |-> "", a |-> id, c |-> 0, o |-> 0]

kInt32 == DType(1)

kObject == DType(2)

kSchema == DType(3)

kAny == DType(4)

kNone == DType(0)

kItemId == DType(5)

kInt64 == DType(6)

kFloat32 == DType(7)

kFloat64 == DType(8)

kMask == DType(9)

kBool == DType(10)

kBytes == DType(11)

kText == DType(12)

kExpr == DType(13)

\* one more than the greatest DTypeId
kNextDTypeId == 14

DTypeIds == 0..(kNextDTypeId - 1)

\* DType::type_id
TypeId(dtype) == dtype.a

AllocId(kind, base, cap) == [k |-> kind, a |-> base, c |-> cap]

\* AllocationId::ObjectByOffset
ObjectByOffset(alloc, off) ==
    [t |-> "obj", k |-> alloc.k, a |-> alloc.a, c |-> alloc.c, o |-> off]

\* AllocationId(ObjectId)
AllocationId(item) == [k |-> item.k, a |-> item.a, c |-> item.c]

HoldsObjectId(item) == item.t = "obj"

IsSchema(item) ==
    /\ item.t = "obj"
    /\ item.k \in {"explicit", "implicit", "nofollow_explicit",
                   "nofollow_implicit", "nofollow_object"}

\* ObjectId::IsNoFollowSchema
IsNoFollowSchema(item) ==
    /\ item.t = "obj"
    /\ item.k \in {"nofollow_explicit", "nofollow_implicit", "nofollow_object"}

\* ObjectId::NoFollowObjectSchemaId: the reserved nofollow id of OBJECT
NoFollowObjectSchemaId ==
    [t |-> "obj", k |-> "nofollow_object", a |-> 0, c |-> 0, o |-> 0]

\* CreateNoFollowWithMainObject: the id of the schema with the nofollow bit
CreateNoFollowWithMainObject(main_object) ==
    [main_object EXCEPT !.k = IF main_object.k = "explicit"
                              THEN "nofollow_explicit"
                              ELSE "nofollow_implicit"]

\* GetOriginalFromNoFollow: the id without the nofollow bit
GetOriginalFromNoFollow(nofollow_object) ==
    [nofollow_object EXCEPT !.k = CASE nofollow_object.k = "nofollow_explicit"
                                         -> "explicit"
                                    [] nofollow_object.k = "nofollow_implicit"
                                         -> "implicit"
                                    [] OTHER -> nofollow_object.k]

IsImplicitSchema(item) == item.t = "obj" /\ item.k = "implicit"

\* The allocator hands out bases that were never used before: nx is the next
\* unused base.
NewAllocationIdLike(alloc, nx) == AllocId(alloc.k, nx, alloc.c)

AllocateExplicitSchemas(cap, nx) == AllocId("explicit", nx, cap)

\* ------------------------------------------------------------------------
\* DataBag: four maps; a write of a missing value leaves no entry
\* ------------------------------------------------------------------------
EmptyMap == [x \in {} |-> Missing]

Put(f, key, v) == (key :> v) @@ f

EmptyDatabag == [attrs |-> EmptyMap, schema_attrs |-> EmptyMap,
                 lists |-> EmptyMap, dicts |-> EmptyMap]

SetAttr(db, obj, name, v) ==
    IF v = Missing THEN db
    ELSE [db EXCEPT !.attrs = Put(db.attrs, <<obj, name>>, v)]

DbSetSchemaAttr(db, schema, name, v) ==
    IF v = Missing THEN db
    ELSE [db EXCEPT !.schema_attrs = Put(db.schema_attrs, <<schema, name>>, v)]

ExtendList(db, list, items) ==
    [db EXCEPT !.lists =
        Put(db.lists, list,
            (IF list \in DOMAIN db.lists THEN db.lists[list] ELSE <<>>) \o items)]

SetInDict(db, dict, key, v) ==
    IF key = Missing \/ v = Missing THEN db
    ELSE [db EXCEPT !.dicts = Put(db.dicts, <<dict, key>>, v)]

\* mutant: the fallback is never read
Lookup_MainOnly(map_main, map_fb, key, dflt) ==
    IF key \in DOMAIN map_main THEN map_main[key] ELSE dflt

\* Read side, with per-key fallback lookup (main databag first)
Lookup(map_main, map_fb, key, dflt) ==
    IF key \in DOMAIN map_main THEN map_main[key]
    ELSE IF key \in DOMAIN map_fb THEN map_fb[key]
    ELSE dflt

GetAttr(db, fb, obj, name) == Lookup(db.attrs, fb.attrs, <<obj, name>>, Missing)

GetSchemaAttr(db, fb, schema, name) ==
    Lookup(db.schema_attrs, fb.schema_attrs, <<schema, name>>, Missing)

ExplodeList(db, fb, list) == Lookup(db.lists, fb.lists, list, <<>>)

GetFromDict(db, fb, dict, key) ==
    Lookup(db.dicts, fb.dicts, <<dict, key>>, Missing)

\* ------------------------------------------------------------------------
\* Attribute names
\* ------------------------------------------------------------------------
kSchemaAttr == "__schema__"

kListItemsSchemaAttr == "__items__"

kDictKeysSchemaAttr == "__keys__"

kDictValuesSchemaAttr == "__values__"

AttrOrder == <<"b", "next", "peer", "self", "x",
               kListItemsSchemaAttr, kDictKeysSchemaAttr, kDictValuesSchemaAttr>>

SeqRange(s) == {s[i] : i \in 1..Len(s)}

\* Names of the attributes a schema record declares, in a fixed order.
SchemaAttrNames(db, fb, schema) ==
    SelectSeq(AttrOrder,
              LAMBDA n : GetSchemaAttr(db, fb, schema, n) # Missing)

RECURSIVE SetToSeq(_)
SetToSeq(S) ==
    IF S = {} THEN <<>>
    ELSE LET x == CHOOSE y \in S : TRUE IN <<x>> \o SetToSeq(S \ {x})

\* Keys of a dict, main databag and fallback together, in a fixed order.
GetDictKeys(db, fb, dict) ==
    SetToSeq({kk[2] : kk \in {p \in (DOMAIN db.dicts) \cup (DOMAIN fb.dicts) :
                                 p[1] = dict}})

\* ------------------------------------------------------------------------
\* The source stores the model runs on
\* ------------------------------------------------------------------------
AllocA == AllocId("obj", 1, 3)

AllocB == AllocId("obj", 2, 2)

AllocL == AllocId("list", 3, 2)

AllocD == AllocId("dict", 4, 1)

AllocO == AllocId("obj", 5, 2)

a0 == ObjectByOffset(AllocA, 0)

a1 == ObjectByOffset(AllocA, 1)

a2 == ObjectByOffset(AllocA, 2)

b0 == ObjectByOffset(AllocB, 0)

b1 == ObjectByOffset(AllocB, 1)

l0 == ObjectByOffset(AllocL, 0)

l1 == ObjectByOffset(AllocL, 1)

d0 == ObjectByOffset(AllocD, 0)

o0 == ObjectByOffset(AllocO, 0)

o1 == ObjectByOffset(AllocO, 1)

\* AllocateExplicitSchema(): one schema per allocation
SA == ObjectByOffset(AllocId("explicit", 6, 1), 0)

SB == ObjectByOffset(AllocId("explicit", 7, 1), 0)

SL == ObjectByOffset(AllocId("explicit", 8, 1), 0)

SLO == ObjectByOffset(AllocId("explicit", 9, 1), 0)

SD == ObjectByOffset(AllocId("explicit", 10, 1), 0)

SN == ObjectByOffset(AllocId("explicit", 11, 1), 0)

\* CreateUuidWithMainObject<kUuidImplicitSchemaFlag>
I0 == ObjectByOffset(AllocId("implicit", 12, 1), 0)

I1 == ObjectByOffset(AllocId("implicit", 13, 1), 0)

\* a schema with an attribute of schema ANY
SX == ObjectByOffset(AllocId("explicit", 14, 1), 0)

SourceAllocBases == 1..14

FirstFreshBase == Cardinality(SourceAllocBases) + 1

MapOf(triples) ==
    LET present == {tr \in triples : tr[3] # Missing} IN
    [key \in {<<tr[1], tr[2]>> : tr \in present} |->
        (CHOOSE tr \in present : <<tr[1], tr[2]>> = key)[3]]

SchemaTriples ==
    { <<SA, "next", SA>>, <<SA, "b", SB>>, <<SA, "x", kInt32>>,
      <<SB, "self", SB>>, <<SB, "next", SA>>,
      <<SL, kListItemsSchemaAttr, SA>>,
      <<SLO, kListItemsSchemaAttr, kObject>>,
      <<SD, kDictKeysSchemaAttr, SB>>, <<SD, kDictValuesSchemaAttr, SA>>,
      <<I0, "x", kInt32>>,
      <<I1, "x", kInt32>>, <<I1, "peer", kObject>>,
      <<SX, "x", kAny>>,
      \* noise: reachable from no slice of the model
      <<SN, "self", SN>>, <<SN, "next", SA>> }

\* n0, n1: a0.next and a1.next; s0, s1: the __schema__ of o0 and o1;
\* sl: the __schema__ of the list l1 (a list of OBJECT, or a list of SA
\* entities).
DataTriples(n0, n1, s0, s1, sl) ==
    { <<a0, "next", n0>>, <<a0, "b", b0>>, <<a0, "x", Prim(1)>>,
      <<a1, "next", n1>>, <<a1, "b", b0>>, <<a1, "x", Prim(2)>>,
      <<b0, "self", b0>>,
      <<b1, "self", b1>>,
      <<o0, kSchemaAttr, s0>>, <<o0, "x", Prim(5)>>,
      <<o1, kSchemaAttr, s1>>, <<o1, "x", Prim(6)>>, <<o1, "peer", o0>>,
      <<l1, kSchemaAttr, sl>>,
      \* noise
      <<a2, "x", Prim(3)>>, <<a2, "next", a2>> }

SourceContent(n0, n1, s0, s1, sl) ==
    [attrs |-> MapOf(DataTriples(n0, n1, s0, s1, sl)),
     schema_attrs |-> MapOf(SchemaTriples),
     lists |-> (l0 :> <<a0, Missing, a1>>) @@
               (l1 :> IF sl = SLO THEN <<o0, Prim(7), o1>> ELSE <<o0, Missing>>),
     dicts |-> MapOf({<<d0, b0, a0>>, <<d0, b1, a1>>})]

\* ------------------------------------------------------------------------
\* DeepCloneVisitor (deep_clone.cc).  The visitor state is the allocation
\* tracker tr (source AllocationId -> destination AllocationId), the flag
\* iss (is_schema_slice_) and the destination databag; nx is the next base
\* the allocator hands out.  Callbacks return [ok, ...] records, ok = FALSE
\* standing for a non-OK absl::Status.
\* ------------------------------------------------------------------------
\* mutant: the allocation is registered as its own destination
PrevisitObject_SameAllocation(item, tr, nx) ==
    IF ~HoldsObjectId(item) THEN [ok |-> TRUE, tr |-> tr, nx |-> nx]
    ELSE LET allocation_id == AllocationId(item) IN
         IF allocation_id \in DOMAIN tr
         THEN [ok |-> TRUE, tr |-> tr, nx |-> nx]
         ELSE [ok |-> TRUE,
               tr |-> Put(tr, allocation_id, allocation_id),
               nx |-> nx]

\* mutant: every Previsit of an object allocates again
PrevisitObject_Reallocate(item, tr, nx) ==
    IF ~HoldsObjectId(item) THEN [ok |-> TRUE, tr |-> tr, nx |-> nx]
    ELSE [ok |-> TRUE,
          tr |-> Put(tr, AllocationId(item),
                     NewAllocationIdLike(AllocationId(item), nx)),
          nx |-> nx + 1]

PrevisitObject(item, tr, nx) ==
    IF ~HoldsObjectId(item) THEN [ok |-> TRUE, tr |-> tr, nx |-> nx]
    ELSE LET allocation_id == AllocationId(item) IN
         IF allocation_id \in DOMAIN tr
         THEN [ok |-> TRUE, tr |-> tr, nx |-> nx]
         ELSE [ok |-> TRUE,
               tr |-> Put(tr, allocation_id,
                          NewAllocationIdLike(allocation_id, nx)),
               nx |-> nx + 1]

\* mutant: explicit schemas are forked whatever the slice is
PrevisitSchema_ForkAll(schema, tr, nx, iss) ==
    IF ~HoldsObjectId(schema) THEN [ok |-> TRUE, tr |-> tr, nx |-> nx]
    ELSE LET allocation_id == AllocationId(schema) IN
         IF allocation_id \in DOMAIN tr
         THEN [ok |-> TRUE, tr |-> tr, nx |-> nx]
         ELSE [ok |-> TRUE,
               tr |-> Put(tr, allocation_id,
                          IF IsImplicitSchema(schema)
                          THEN AllocateExplicitSchemas(allocation_id.c, nx)
                          ELSE NewAllocationIdLike(allocation_id, nx)),
               nx |-> nx + 1]

PrevisitSchema(schema, tr, nx, iss) ==
    IF ~HoldsObjectId(schema) THEN [ok |-> TRUE, tr |-> tr, nx |-> nx]
    ELSE IF ~IsImplicitSchema(schema) /\ ~iss
    THEN [ok |-> TRUE, tr |-> tr, nx |-> nx]
    ELSE LET allocation_id == AllocationId(schema) IN
         IF allocation_id \in DOMAIN tr
         THEN [ok |-> TRUE, tr |-> tr, nx |-> nx]
         ELSE [ok |-> TRUE,
               tr |-> Put(tr, allocation_id,
                          IF IsImplicitSchema(schema)
                          THEN AllocateExplicitSchemas(allocation_id.c, nx)
                          ELSE NewAllocationIdLike(allocation_id, nx)),
               nx |-> nx + 1]

\* absl::OkStatus()
kOkStatus == "OK"

\* absl::InternalError of Previsit under the ANY schema
kAnySchemaNotSupported == "deep_clone does not support ANY schema"

\* absl::InternalError of Previsit under a schema that is neither an
\* ObjectId nor a DType
kUnsupportedSchemaType == "unsupported schema type"

\* absl::InvalidArgumentError of GetValue
kAllocationNotFound == "new allocation for object is not found"

\* the error of the store when an object under OBJECT has no __schema__
kObjectSchemaMissing == "object schema is missing"

\* the absl::Status Previsit returns
PrevisitStatus(item, schema) ==
    IF HoldsObjectId(schema) THEN kOkStatus
    ELSE IF schema.t = "dtype" THEN
        IF schema = kAny THEN kAnySchemaNotSupported ELSE kOkStatus
    ELSE kUnsupportedSchemaType

\* mutant: ANY is handled as OBJECT is
Previsit_AnyAsObject(item, schema, tr, nx, iss) ==
    IF HoldsObjectId(schema) THEN PrevisitObject(item, tr, nx)
    ELSE IF schema.t = "dtype" THEN
        IF schema = kObject \/ schema = kAny THEN PrevisitObject(item, tr, nx)
        ELSE IF schema = kSchema THEN PrevisitSchema(item, tr, nx, iss)
        ELSE [ok |-> TRUE, tr |-> tr, nx |-> nx]
    ELSE [ok |-> FALSE, tr |-> tr, nx |-> nx]

Previsit(item, schema, tr, nx, iss) ==
    IF HoldsObjectId(schema) THEN PrevisitObject(item, tr, nx)
    ELSE IF schema.t = "dtype" THEN
        IF schema = kObject THEN PrevisitObject(item, tr, nx)
        ELSE IF schema = kAny THEN [ok |-> FALSE, tr |-> tr, nx |-> nx]
        ELSE IF schema = kSchema THEN PrevisitSchema(item, tr, nx, iss)
        ELSE [ok |-> TRUE, tr |-> tr, nx |-> nx]
    ELSE [ok |-> FALSE, tr |-> tr, nx |-> nx]

\* mutant: the offset of the item in its allocation is dropped
GetValue_DropOffset(item, schema, tr, iss) ==
    IF ~HoldsObjectId(item) THEN [ok |-> TRUE, v |-> item]
    ELSE IF IsSchema(item) /\ ~iss /\ ~IsImplicitSchema(item)
    THEN [ok |-> TRUE, v |-> item]
    ELSE IF AllocationId(item) \notin DOMAIN tr
    THEN [ok |-> FALSE, v |-> Missing]
    ELSE [ok |-> TRUE, v |-> ObjectByOffset(tr[AllocationId(item)], 0)]

\* mutant: implicit schemas are shared like explicit ones
GetValue_ImplicitShared(item, schema, tr, iss) ==
    IF ~HoldsObjectId(item) THEN [ok |-> TRUE, v |-> item]
    ELSE IF IsSchema(item) /\ ~iss
    THEN [ok |-> TRUE, v |-> item]
    ELSE IF AllocationId(item) \notin DOMAIN tr
    THEN [ok |-> FALSE, v |-> Missing]
    ELSE [ok |-> TRUE, v |-> ObjectByOffset(tr[AllocationId(item)], item.o)]

\* mutant: a registered object is returned under its own id
GetValue_SourceId(item, schema, tr, iss) ==
    IF ~HoldsObjectId(item) THEN [ok |-> TRUE, v |-> item]
    ELSE IF IsSchema(item) /\ ~iss /\ ~IsImplicitSchema(item)
    THEN [ok |-> TRUE, v |-> item]
    ELSE IF AllocationId(item) \notin DOMAIN tr
    THEN [ok |-> FALSE, v |-> Missing]
    ELSE [ok |-> TRUE, v |-> item]

GetValue(item, schema, tr, iss) ==
    IF ~HoldsObjectId(item) THEN [ok |-> TRUE, v |-> item]
    ELSE IF IsSchema(item) /\ ~iss /\ ~IsImplicitSchema(item)
    THEN [ok |-> TRUE, v |-> item]
    ELSE IF AllocationId(item) \notin DOMAIN tr
    THEN [ok |-> FALSE, v |-> Missing]
    ELSE [ok |-> TRUE, v |-> ObjectByOffset(tr[AllocationId(item)], item.o)]

\* DeepCloneVisitor::SetSchemaAttr: writes the mapped schema as __schema__
SetSchemaAttr(db, item, schema, tr, iss) ==
    LET explicit_schema_value == GetValue(schema, kSchema, tr, iss) IN
    IF ~explicit_schema_value.ok THEN [ok |-> FALSE, db |-> db]
    ELSE [ok |-> TRUE,
          db |-> SetAttr(db, item, kSchemaAttr, explicit_schema_value.v)]

\* mutant: the content is written under the source id
VisitHead_Unmapped(db, item, schema, is_object_schema, tr, iss) ==
    LET new_item == GetValue(item, schema, tr, iss) IN
    IF ~new_item.ok THEN [ok |-> FALSE, db |-> db, item |-> Missing]
    ELSE IF is_object_schema
    THEN LET r == SetSchemaAttr(db, new_item.v, schema, tr, iss) IN
         [ok |-> r.ok, db |-> r.db, item |-> item]
    ELSE [ok |-> TRUE, db |-> db, item |-> item]

\* mutant: __schema__ is written whatever is_object_schema is
VisitHead_SchemaAttrAlways(db, item, schema, is_object_schema, tr, iss) ==
    LET new_item == GetValue(item, schema, tr, iss) IN
    IF ~new_item.ok THEN [ok |-> FALSE, db |-> db, item |-> Missing]
    ELSE LET r == SetSchemaAttr(db, new_item.v, schema, tr, iss) IN
         [ok |-> r.ok, db |-> r.db, item |-> new_item.v]

\* new identity of the visited item, then __schema__ when is_object_schema
VisitHead(db, item, schema, is_object_schema, tr, iss) ==
    LET new_item == GetValue(item, schema, tr, iss) IN
    IF ~new_item.ok THEN [ok |-> FALSE, db |-> db, item |-> Missing]
    ELSE IF is_object_schema
    THEN LET r == SetSchemaAttr(db, new_item.v, schema, tr, iss) IN
         [ok |-> r.ok, db |-> r.db, item |-> new_item.v]
    ELSE [ok |-> TRUE, db |-> db, item |-> new_item.v]

VisitList(db, list, schema, is_object_schema, items, tr, iss) ==
    LET h == VisitHead(db, list, schema, is_object_schema, tr, iss) IN
    IF ~h.ok THEN [ok |-> FALSE, db |-> h.db]
    ELSE [ok |-> TRUE, db |-> ExtendList(h.db, h.item, items)]

RECURSIVE SetAllInDict(_, _, _, _)
SetAllInDict(db, dict, keys, values) ==
    IF keys = <<>> THEN db
    ELSE SetAllInDict(SetInDict(db, dict, Head(keys), Head(values)),
                      dict, Tail(keys), Tail(values))

VisitDict(db, dict, schema, is_object_schema, keys, values, tr, iss) ==
    LET h == VisitHead(db, dict, schema, is_object_schema, tr, iss) IN
    IF ~h.ok THEN [ok |-> FALSE, db |-> h.db]
    ELSE [ok |-> TRUE, db |-> SetAllInDict(h.db, h.item, keys, values)]

\* mutant: schema records go through the ordinary attribute channel
RECURSIVE SetAllAttrs_DataChannel(_, _, _, _, _)
SetAllAttrs_DataChannel(db, obj, schema, attr_names, attr_values) ==
    IF attr_names = <<>> THEN db
    ELSE SetAllAttrs_DataChannel(
           SetAttr(db, obj, Head(attr_names), Head(attr_values)),
           obj, schema, Tail(attr_names), Tail(attr_values))

RECURSIVE SetAllAttrs(_, _, _, _, _)
SetAllAttrs(db, obj, schema, attr_names, attr_values) ==
    IF attr_names = <<>> THEN db
    ELSE SetAllAttrs(
           IF schema = kSchema
           THEN DbSetSchemaAttr(db, obj, Head(attr_names), Head(attr_values))
           ELSE SetAttr(db, obj, Head(attr_names), Head(attr_values)),
           obj, schema, Tail(attr_names), Tail(attr_values))

VisitObject(db, object, schema, is_object_schema, attr_names, attr_values, tr, iss) ==
    LET h == VisitHead(db, object, schema, is_object_schema, tr, iss) IN
    IF ~h.ok THEN [ok |-> FALSE, db |-> h.db]
    ELSE [ok |-> TRUE,
          db |-> SetAllAttrs(h.db, h.item, schema, attr_names, attr_values)]

VisitSchema(db, item, schema, is_object_schema, attr_names, attr_schema, tr, iss) ==
    VisitObject(db, item, schema, is_object_schema, attr_names, attr_schema,
                tr, iss)

\* ------------------------------------------------------------------------
\* DType lattice and common schema (schema_utils.cc)
\* ------------------------------------------------------------------------
\* mutant: ITEMID is not adjacent to NONE
GetDTypeLattice_ItemIdApart ==
    (kNone :> {kSchema, kInt32, kMask, kBool, kBytes, kText, kExpr}) @@
    (kItemId :> {}) @@
    (kSchema :> {}) @@
    (kInt32 :> {kInt64}) @@
    (kInt64 :> {kFloat32}) @@
    (kFloat32 :> {kFloat64}) @@
    (kFloat64 :> {kObject}) @@
    (kMask :> {kObject}) @@
    (kBool :> {kObject}) @@
    (kBytes :> {kObject}) @@
    (kText :> {kObject}) @@
    (kExpr :> {kObject}) @@
    (kObject :> {kAny}) @@
    (kAny :> {})

\* mutant: BYTES and TEXT are below ITEMID too
GetDTypeLattice_TwoLeastUpperBounds ==
    (kNone :> {kItemId, kSchema, kInt32, kMask, kBool, kBytes, kText, kExpr}) @@
    (kItemId :> {}) @@
    (kSchema :> {}) @@
    (kInt32 :> {kInt64}) @@
    (kInt64 :> {kFloat32}) @@
    (kFloat32 :> {kFloat64}) @@
    (kFloat64 :> {kObject}) @@
    (kMask :> {kObject}) @@
    (kBool :> {kObject}) @@
    (kBytes :> {kObject, kItemId}) @@
    (kText :> {kObject, kItemId}) @@
    (kExpr :> {kObject}) @@
    (kObject :> {kAny}) @@
    (kAny :> {})

\* Adjacency list of the lattice: each DType with its directly adjacent
\* greater DTypes.
GetDTypeLattice ==
    (kNone :> {kItemId, kSchema, kInt32, kMask, kBool, kBytes, kText, kExpr}) @@
    (kItemId :> {}) @@
    (kSchema :> {}) @@
    (kInt32 :> {kInt64}) @@
    (kInt64 :> {kFloat32}) @@
    (kFloat32 :> {kFloat64}) @@
    (kFloat64 :> {kObject}) @@
    (kMask :> {kObject}) @@
    (kBool :> {kObject}) @@
    (kBytes :> {kObject}) @@
    (kText :> {kObject}) @@
    (kExpr :> {kObject}) @@
    (kObject :> {kAny}) @@
    (kAny :> {})

kUnknownDType == -1

\* LOG(FATAL): the lattice is malformed
kLatticeMalformed == -2

\* the adjacency matrix GetReachableDTypes starts from: row i is the set of
\* the ids j with reachable_dtypes[i][j] set
AdjacencyMatrix ==
    [i \in DTypeIds |->
        IF DType(i) \in DOMAIN GetDTypeLattice
        THEN {i} \cup {TypeId(d) : d \in GetDTypeLattice[DType(i)]}
        ELSE {}]

\* the Floyd-Warshall loop of GetReachableDTypes, from k on
RECURSIVE FloydWarshall(_, _)
FloydWarshall(reachable_dtypes, k) ==
    IF k >= kNextDTypeId THEN reachable_dtypes
    ELSE FloydWarshall(
             [i \in DTypeIds |->
                 IF k \in reachable_dtypes[i]
                 THEN reachable_dtypes[i] \cup reachable_dtypes[k]
                 ELSE reachable_dtypes[i]],
             k + 1)

GetReachableDTypes == FloydWarshall(AdjacencyMatrix, 0)

\* mutant: the greatest common upper bound is returned
GetCommonDType_Greatest(a, b) ==
    LET cub == GetReachableDTypes[a] \cap GetReachableDTypes[b]
        found == {i \in cub : Cardinality(GetReachableDTypes[i]) = 1}
    IN IF Cardinality(cub) = 0 THEN kUnknownDType
       ELSE IF found = {} THEN kLatticeMalformed
       ELSE CHOOSE i \in found : \A j \in found : i <= j

\* the lambda get_common_dtype of GetMatrixImpl
GetCommonDType(a, b) ==
    LET cub == GetReachableDTypes[a] \cap GetReachableDTypes[b]
        found == {i \in cub :
                     Cardinality(cub) = Cardinality(GetReachableDTypes[i])}
    IN IF Cardinality(cub) = 0 THEN kUnknownDType
       ELSE IF found = {} THEN kLatticeMalformed
       ELSE CHOOSE i \in found : \A j \in found : i <= j

GetMatrixImpl == [i \in DTypeIds |-> [j \in DTypeIds |-> GetCommonDType(i, j)]]

\* DTypeMatrix::CommonDType, on DTypeIds
CommonDType(a, b) == GetMatrixImpl[a][b]

\* NoFollowSchemaItem (schema_utils.cc)
NoFollowSchemaItem(item) ==
    IF item.t = "dtype"
    THEN IF item # kObject THEN [ok |-> FALSE, v |-> Missing]
         ELSE [ok |-> TRUE, v |-> NoFollowObjectSchemaId]
    ELSE IF ~HoldsObjectId(item) THEN [ok |-> FALSE, v |-> Missing]
    ELSE IF ~IsSchema(item) THEN [ok |-> FALSE, v |-> Missing]
    ELSE IF IsNoFollowSchema(item) THEN [ok |-> FALSE, v |-> Missing]
    ELSE [ok |-> TRUE, v |-> CreateNoFollowWithMainObject(item)]

\* mutant: the reserved nofollow id of OBJECT is handled as any other id
GetNoFollowedSchemaItem_NoObjectCase(nofollow_schema_item) ==
    IF nofollow_schema_item.t = "dtype"
       \/ ~IsNoFollowSchema(nofollow_schema_item)
    THEN [ok |-> FALSE, v |-> Missing]
    ELSE [ok |-> TRUE, v |-> GetOriginalFromNoFollow(nofollow_schema_item)]

\* GetNoFollowedSchemaItem (schema_utils.cc)
GetNoFollowedSchemaItem(nofollow_schema_item) ==
    IF nofollow_schema_item.t = "dtype"
       \/ ~IsNoFollowSchema(nofollow_schema_item)
    THEN [ok |-> FALSE, v |-> Missing]
    ELSE IF nofollow_schema_item = NoFollowObjectSchemaId
    THEN [ok |-> TRUE, v |-> kObject]
    ELSE [ok |-> TRUE, v |-> GetOriginalFromNoFollow(nofollow_schema_item)]

\* ------------------------------------------------------------------------
\* State
\* ------------------------------------------------------------------------
VARIABLES
    databag,             \* source store (read-only during a call)
    fallback,            \* its single fallback store
    pc,                  \* "idle" | "running" | "done" | "failed"
    calls,               \* number of DeepCloneOp calls started
    ds,                  \* the slice of the current call
    schema,              \* the declared schema of the current call
    stack,               \* traverser: pending work, top first
    visited,             \* traverser: visited-set of ObjectIds
    previsit_log,        \* visitor.Previsit calls made by the traverser
    getvalue_log,        \* visitor.GetValue calls made by the traverser
    visit_log,           \* visitor.Visit* calls made by the traverser
    visit_args,          \* the children each of those calls was handed
    allocation_tracker,  \* DeepCloneVisitor::allocation_tracker_
    is_schema_slice,     \* DeepCloneVisitor::is_schema_slice_
    new_databag,         \* DeepCloneVisitor::new_databag_ (destination)
    next_alloc,          \* the process-wide allocator
    result_slice,        \* returned slice (<<>> until the call returns)
    result_schema,       \* returned schema (Missing until the call returns)
    result_status,       \* the absl::Status the call ended with (OK until then)
    previous_call,       \* outcome of the call that a mirrored call repeats
    earlier_calls,       \* what the caller saw of the calls CallAgain followed
    lhs, rhs,            \* DTypeIds of the last CommonDType call (or -1)
    common,              \* what that call returned
    schema_item,         \* argument of the last NoFollowSchemaItem call
    nofollow,            \* what that call returned
    nofollowed,          \* GetNoFollowedSchemaItem of that result
    seen_dtypes,         \* CommonDTypeAggregator::seen_dtypes_
    res_object_id,       \* CommonSchemaAggregator::res_object_id_
    status,              \* CommonSchemaAggregator::status_
    added,               \* the schema items added to the aggregator so far
    get_result,          \* what CommonSchemaAggregator::Get returned
    schema_ids           \* the slice of the last CommonSchema call

vars == <<databag, fallback, pc, calls, ds, schema, stack, visited,
          previsit_log, getvalue_log, visit_log, visit_args,
          allocation_tracker, is_schema_slice, new_databag, next_alloc, result_slice,
          result_schema, result_status, previous_call, earlier_calls,
          lhs, rhs, common,
          schema_item,
          nofollow, nofollowed, seen_dtypes, res_object_id, status, added,
          get_result, schema_ids>>

deep_clone_vars ==
    <<databag, fallback, pc, calls, ds, schema, stack, visited, previsit_log,
      getvalue_log, visit_log, visit_args, allocation_tracker,
      is_schema_slice, new_databag, next_alloc, result_slice, result_schema,
      result_status, previous_call, earlier_calls>>

schema_utils_vars == <<lhs, rhs, common, schema_item, nofollow, nofollowed>>

aggregator_vars ==
    <<seen_dtypes, res_object_id, status, added, get_result, schema_ids>>

schema_vars == <<schema_utils_vars, aggregator_vars>>

source_vars == <<databag, fallback>>

call_vars ==
    <<calls, ds, schema, is_schema_slice, previous_call, earlier_calls>>

result_vars == <<result_slice, result_schema, result_status>>

\* ------------------------------------------------------------------------
\* Traverser: what an item's content is, read from the source stores
\* ------------------------------------------------------------------------
Pair(item, sch) == [item |-> item, schema |-> sch]

Frame(op, item, sch, is_object_schema) ==
    [op |-> op, item |-> item, schema |-> sch,
     is_object_schema |-> is_object_schema]

ListItems(list, sch) ==
    LET items == ExplodeList(databag, fallback, list)
        item_schema == GetSchemaAttr(databag, fallback, sch,
                                     kListItemsSchemaAttr)
    IN [i \in 1..Len(items) |-> Pair(items[i], item_schema)]

DictKeys(dict, sch) ==
    LET keys == GetDictKeys(databag, fallback, dict)
        key_schema == GetSchemaAttr(databag, fallback, sch,
                                    kDictKeysSchemaAttr)
    IN [i \in 1..Len(keys) |-> Pair(keys[i], key_schema)]

DictValues(dict, sch) ==
    LET keys == GetDictKeys(databag, fallback, dict)
        value_schema == GetSchemaAttr(databag, fallback, sch,
                                      kDictValuesSchemaAttr)
    IN [i \in 1..Len(keys) |->
            Pair(GetFromDict(databag, fallback, dict, keys[i]), value_schema)]

ObjectAttrs(obj, sch) ==
    LET names == SchemaAttrNames(databag, fallback, sch)
    IN [i \in 1..Len(names) |->
            Pair(GetAttr(databag, fallback, obj, names[i]),
                 GetSchemaAttr(databag, fallback, sch, names[i]))]

SchemaAttrs(item) ==
    LET names == SchemaAttrNames(databag, fallback, item)
    IN [i \in 1..Len(names) |->
            Pair(GetSchemaAttr(databag, fallback, item, names[i]), kSchema)]

\* "list" | "dict" | "schema" | "object": the shape of an ObjectId item
Shape(item, sch) ==
    IF sch = kSchema THEN "schema"
    ELSE IF item.k = "list" THEN "list"
    ELSE IF item.k = "dict" THEN "dict"
    ELSE "object"

\* The child references of an item, in the order they are recursed into.
Children(item, sch) ==
    CASE Shape(item, sch) = "schema" -> SchemaAttrs(item)
      [] Shape(item, sch) = "list" -> <<Pair(sch, kSchema)>> \o ListItems(item, sch)
      [] Shape(item, sch) = "dict" ->
            <<Pair(sch, kSchema)>> \o DictKeys(item, sch) \o DictValues(item, sch)
      [] OTHER -> <<Pair(sch, kSchema)>> \o ObjectAttrs(item, sch)

ReachFrames(pairs) ==
    [i \in 1..Len(pairs) |-> Frame("reach", pairs[i].item, pairs[i].schema, FALSE)]

\* An item the traverser does not recurse into: missing, a primitive, or any
\* item under a schema that is neither an entity schema, OBJECT nor SCHEMA.
IsLeaf(item, sch) ==
    \/ ~HoldsObjectId(item)
    \/ (sch.t = "dtype" /\ sch \notin {kObject, kSchema, kAny})

\* visitor.GetValue over a sequence of children
Values(pairs) ==
    [i \in 1..Len(pairs) |->
        GetValue(pairs[i].item, pairs[i].schema, allocation_tracker,
                 is_schema_slice)]

AllOk(rs) == \A i \in 1..Len(rs) : rs[i].ok

Unwrap(rs) == [i \in 1..Len(rs) |-> rs[i].v]

\* no call to compare with
NoCall ==
    [pc |-> "none", new_databag |-> EmptyDatabag, result_slice |-> <<>>,
     allocation_tracker |-> EmptyMap]

\* ------------------------------------------------------------------------
\* Init: one of the source stores of the family, held by the main databag
\* or by the fallback; no call made yet
\* ------------------------------------------------------------------------
\* no DeepCloneOp call made yet
IdleDeepClone ==
    /\ pc = "idle"
    /\ calls = 0
    /\ ds = <<>>
    /\ schema = Missing
    /\ stack = <<>>
    /\ visited = {}
    /\ previsit_log = <<>>
    /\ getvalue_log = {}
    /\ visit_log = <<>>
    /\ visit_args = <<>>
    /\ allocation_tracker = EmptyMap
    /\ is_schema_slice = FALSE
    /\ new_databag = EmptyDatabag
    /\ next_alloc = FirstFreshBase
    /\ result_slice = <<>>
    /\ result_schema = Missing
    /\ result_status = kOkStatus
    /\ previous_call = NoCall
    /\ earlier_calls = {}

\* an absent absl::StatusOr: no call made yet
NoResult == [ok |-> FALSE, v |-> Missing]

\* no schema_utils function called yet
NoSchemaUtilsCall ==
    /\ lhs = kUnknownDType
    /\ rhs = kUnknownDType
    /\ common = kUnknownDType
    /\ schema_item = Missing
    /\ nofollow = NoResult
    /\ nofollowed = NoResult

\* CommonSchemaAggregator::Get not called yet
NoGet ==
    [called |-> FALSE, ok |-> FALSE, v |-> Missing, error |-> "",
     res_dtype |-> Missing]

\* a default-constructed CommonSchemaAggregator
NewAggregator ==
    /\ seen_dtypes = {}
    /\ res_object_id = Missing
    /\ status = "ok"
    /\ added = {}
    /\ get_result = NoGet
    /\ schema_ids = <<>>

Init ==
    /\ \E n0 \in {Missing, a0, a1}, n1 \in {Missing, a0},
          s0 \in {SA, I0}, s1 \in {I0, I1}, sl \in {SLO, SL},
          in_main \in BOOLEAN :
          /\ (sl = SL) => (s0 = SA)
          /\ databag = IF in_main THEN SourceContent(n0, n1, s0, s1, sl)
                       ELSE EmptyDatabag
          /\ fallback = IF in_main THEN EmptyDatabag
                        ELSE SourceContent(n0, n1, s0, s1, sl)
    /\ IdleDeepClone
    /\ NoSchemaUtilsCall
    /\ NewAggregator

\* The (slice, schema) inputs of the model; every slice is typed by its
\* schema in the source store.
CallInputs ==
    { [ds |-> <<a0, a1>>, schema |-> SA],
      [ds |-> <<a1, Missing, a0>>, schema |-> SA],
      [ds |-> <<l0>>, schema |-> SL],
      [ds |-> <<d0>>, schema |-> SD],
      [ds |-> <<o0, Missing, Prim(3), o1, l1>>, schema |-> kObject],
      [ds |-> <<l1, o0>>, schema |-> kObject],
      [ds |-> <<SA, SB>>, schema |-> kSchema],
      [ds |-> <<I0, SD>>, schema |-> kSchema],
      [ds |-> <<a0>>, schema |-> kAny],
      [ds |-> <<>>, schema |-> kAny],
      [ds |-> <<a1>>, schema |-> SX],
      [ds |-> <<SX>>, schema |-> kSchema],
      [ds |-> <<a0>>, schema |-> kItemId] }
    \cup (IF GetAttr(databag, fallback, o1, kSchemaAttr) = I1
          THEN {[ds |-> <<o1>>, schema |-> I1]} ELSE {})

\* ------------------------------------------------------------------------
\* DeepCloneOp::operator(): constructs the visitor and the traverser and
\* starts TraverseSlice on the slice
\* ------------------------------------------------------------------------
Call ==
    /\ pc # "running"
    /\ calls < MaxCalls
    /\ \E in \in CallInputs :
          /\ ds' = in.ds
          /\ schema' = in.schema
          /\ is_schema_slice' = (in.schema = kSchema)
          /\ stack' = [i \in 1..Len(in.ds) |->
                          Frame("reach", in.ds[i], in.schema, FALSE)]
    /\ pc' = "running"
    /\ calls' = calls + 1
    /\ visited' = {}
    /\ previsit_log' = <<>>
    /\ getvalue_log' = {}
    /\ visit_log' = <<>>
    /\ visit_args' = <<>>
    /\ allocation_tracker' = EmptyMap
    /\ new_databag' = EmptyDatabag
    /\ result_slice' = <<>>
    /\ result_schema' = Missing
    /\ result_status' = kOkStatus
    /\ previous_call' = NoCall
    /\ UNCHANGED schema_vars
    /\ UNCHANGED <<source_vars, next_alloc, earlier_calls>>

\* CopyingOpTest with the other test parameter: the finished call is made
\* again on the same slice, with the content that the main databag held now
\* held by the fallback, and the other way round
CallMirrored ==
    /\ pc \in {"done", "failed"}
    /\ calls < MaxCalls
    /\ databag' = fallback
    /\ fallback' = databag
    /\ previous_call' = [pc |-> pc, new_databag |-> new_databag,
                         result_slice |-> result_slice,
                         allocation_tracker |-> allocation_tracker]
    /\ stack' = [i \in 1..Len(ds) |-> Frame("reach", ds[i], schema, FALSE)]
    /\ pc' = "running"
    /\ calls' = calls + 1
    /\ visited' = {}
    /\ previsit_log' = <<>>
    /\ getvalue_log' = {}
    /\ visit_log' = <<>>
    /\ visit_args' = <<>>
    /\ allocation_tracker' = EmptyMap
    /\ new_databag' = EmptyDatabag
    /\ result_slice' = <<>>
    /\ result_schema' = Missing
    /\ result_status' = kOkStatus
    /\ UNCHANGED schema_vars
    /\ UNCHANGED <<ds, schema, is_schema_slice, next_alloc, earlier_calls>>

\* ------------------------------------------------------------------------
\* Traverser steps
\* ------------------------------------------------------------------------
Top == Head(stack)

Reaching == pc = "running" /\ stack # <<>> /\ Top.op = "reach"

Visiting == pc = "running" /\ stack # <<>> /\ Top.op = "visit"

TopPrevisit ==
    Previsit(Top.item, Top.schema, allocation_tracker, next_alloc,
             is_schema_slice)

\* the visitor.Previsit call every reach of an item starts with
CallPrevisit ==
    /\ previsit_log' = Append(previsit_log, Pair(Top.item, Top.schema))
    /\ allocation_tracker' = TopPrevisit.tr
    /\ next_alloc' = TopPrevisit.nx

\* the __schema__ attribute of an item reached under OBJECT
ObjectSchemaOf(item) == GetAttr(databag, fallback, item, kSchemaAttr)

\* Previsit fails, or the store has no schema for an item under OBJECT
ReachFails ==
    \/ ~TopPrevisit.ok
    \/ /\ HoldsObjectId(Top.item)
       /\ Top.schema = kObject
       /\ ObjectSchemaOf(Top.item) = Missing

\* mutant: missing and primitive items are not Previsited
TraversePrimitive_NoPrevisit ==
    /\ Reaching
    /\ ~ReachFails
    /\ IsLeaf(Top.item, Top.schema)
    /\ visit_log' = Append(visit_log,
                           Frame("VisitPrimitive", Top.item, Top.schema, FALSE))
    /\ visit_args' = Append(visit_args, <<>>)
    /\ stack' = Tail(stack)
    /\ UNCHANGED schema_vars
    /\ UNCHANGED <<source_vars, call_vars, result_vars, pc, visited,
                   getvalue_log, new_databag, previsit_log,
                   allocation_tracker, next_alloc>>

\* a missing or primitive item: Previsit, then VisitPrimitive; no recursion
TraversePrimitive ==
    /\ Reaching
    /\ ~ReachFails
    /\ IsLeaf(Top.item, Top.schema)
    /\ CallPrevisit
    /\ visit_log' = Append(visit_log,
                           Frame("VisitPrimitive", Top.item, Top.schema, FALSE))
    /\ visit_args' = Append(visit_args, <<>>)
    /\ stack' = Tail(stack)
    /\ UNCHANGED schema_vars
    /\ UNCHANGED <<source_vars, call_vars, result_vars, pc, visited,
                   getvalue_log, new_databag>>

\* mutant: an object under OBJECT is not Previsited with OBJECT
TraverseObjectSchema_NoObjectPrevisit ==
    /\ Reaching
    /\ ~ReachFails
    /\ HoldsObjectId(Top.item)
    /\ Top.schema = kObject
    /\ stack' = <<Frame("reach", Top.item, ObjectSchemaOf(Top.item), TRUE)>>
                \o Tail(stack)
    /\ UNCHANGED schema_vars
    /\ UNCHANGED <<source_vars, call_vars, result_vars, pc, visited,
                   getvalue_log, visit_log, visit_args, new_databag,
                   previsit_log, allocation_tracker, next_alloc>>

\* an object under OBJECT: Previsit with OBJECT, then the object is walked
\* under its own __schema__ with is_object_schema set
TraverseObjectSchema ==
    /\ Reaching
    /\ ~ReachFails
    /\ HoldsObjectId(Top.item)
    /\ Top.schema = kObject
    /\ CallPrevisit
    /\ stack' = <<Frame("reach", Top.item, ObjectSchemaOf(Top.item), TRUE)>>
                \o Tail(stack)
    /\ UNCHANGED schema_vars
    /\ UNCHANGED <<source_vars, call_vars, result_vars, pc, visited,
                   getvalue_log, visit_log, visit_args, new_databag>>

\* mutant: an object that is in the visited-set already is expanded again
TraverseVisited_ExpandAgain ==
    /\ Reaching
    /\ ~ReachFails
    /\ ~IsLeaf(Top.item, Top.schema)
    /\ Top.schema # kObject
    /\ Top.item \in visited
    /\ CallPrevisit
    /\ stack' = ReachFrames(Children(Top.item, Top.schema))
                \o <<Frame("visit", Top.item, Top.schema,
                           Top.is_object_schema)>>
                \o Tail(stack)
    /\ UNCHANGED schema_vars
    /\ UNCHANGED <<source_vars, call_vars, result_vars, pc, visited,
                   getvalue_log, visit_log, visit_args, new_databag>>

\* an object that is in the visited-set already: Previsit, no recursion
TraverseVisited ==
    /\ Reaching
    /\ ~ReachFails
    /\ ~IsLeaf(Top.item, Top.schema)
    /\ Top.schema # kObject
    /\ Top.item \in visited
    /\ CallPrevisit
    /\ stack' = Tail(stack)
    /\ UNCHANGED schema_vars
    /\ UNCHANGED <<source_vars, call_vars, result_vars, pc, visited,
                   getvalue_log, visit_log, visit_args, new_databag>>

\* mutant: an object walked under OBJECT does not enter the visited-set
TraverseExpand_NoVisitedSet ==
    /\ Reaching
    /\ ~ReachFails
    /\ ~IsLeaf(Top.item, Top.schema)
    /\ Top.schema # kObject
    /\ Top.item \notin visited
    /\ CallPrevisit
    /\ visited' = IF Top.is_object_schema THEN visited
                  ELSE visited \cup {Top.item}
    /\ stack' = ReachFrames(Children(Top.item, Top.schema))
                \o <<Frame("visit", Top.item, Top.schema,
                           Top.is_object_schema)>>
                \o Tail(stack)
    /\ UNCHANGED schema_vars
    /\ UNCHANGED <<source_vars, call_vars, result_vars, pc, getvalue_log,
                   visit_log, visit_args, new_databag>>

\* first reach of an object: Previsit, enter the visited-set, recurse into
\* the children; the Visit* of the object comes after them
TraverseExpand ==
    /\ Reaching
    /\ ~ReachFails
    /\ ~IsLeaf(Top.item, Top.schema)
    /\ Top.schema # kObject
    /\ Top.item \notin visited
    /\ CallPrevisit
    /\ visited' = visited \cup {Top.item}
    /\ stack' = ReachFrames(Children(Top.item, Top.schema))
                \o <<Frame("visit", Top.item, Top.schema,
                           Top.is_object_schema)>>
                \o Tail(stack)
    /\ UNCHANGED schema_vars
    /\ UNCHANGED <<source_vars, call_vars, result_vars, pc, getvalue_log,
                   visit_log, visit_args, new_databag>>

\* a failure aborts the traversal
TraverseFail ==
    /\ Reaching
    /\ ReachFails
    /\ CallPrevisit
    /\ pc' = "failed"
    /\ result_status' = IF ~TopPrevisit.ok
                         THEN PrevisitStatus(Top.item, Top.schema)
                         ELSE kObjectSchemaMissing
    /\ UNCHANGED schema_vars
    /\ UNCHANGED <<source_vars, call_vars, result_slice, result_schema, stack,
                   visited, getvalue_log, visit_log, visit_args, new_databag>>

\* the children handed to the Visit* callback of an item
VisitArgs(item, sch) ==
    CASE Shape(item, sch) = "schema" -> SchemaAttrs(item)
      [] Shape(item, sch) = "list" -> ListItems(item, sch)
      [] Shape(item, sch) = "dict" -> DictKeys(item, sch) \o DictValues(item, sch)
      [] OTHER -> ObjectAttrs(item, sch)

VisitCallback(shape, vals) ==
    LET it == Top.item
        sc == Top.schema
        io == Top.is_object_schema
        tr == allocation_tracker
        names == SchemaAttrNames(databag, fallback,
                                 IF shape = "schema" THEN it ELSE sc)
        n == Len(vals) \div 2
    IN CASE shape = "list" ->
              VisitList(new_databag, it, sc, io, vals, tr, is_schema_slice)
         [] shape = "dict" ->
              VisitDict(new_databag, it, sc, io, SubSeq(vals, 1, n),
                        SubSeq(vals, n + 1, 2 * n), tr, is_schema_slice)
         [] shape = "schema" ->
              VisitSchema(new_databag, it, sc, io, names, vals, tr,
                          is_schema_slice)
         [] OTHER ->
              VisitObject(new_databag, it, sc, io, names, vals, tr,
                          is_schema_slice)

VisitName(shape) ==
    CASE shape = "list" -> "VisitList"
      [] shape = "dict" -> "VisitDict"
      [] shape = "schema" -> "VisitSchema"
      [] OTHER -> "VisitObject"

\* mutant: the Visit* callback is handed the source children themselves
VisitEffect_RawChildren(shape) ==
    LET args == VisitArgs(Top.item, Top.schema)
        vals == Values(args)
        raw == [i \in 1..Len(args) |-> args[i].item]
        r == IF AllOk(vals) THEN VisitCallback(shape, raw)
             ELSE [ok |-> FALSE, db |-> new_databag]
    IN /\ getvalue_log' = getvalue_log \cup SeqRange(args)
       /\ new_databag' = r.db
       /\ IF r.ok
          THEN /\ visit_log' = Append(visit_log,
                                 Frame(VisitName(shape), Top.item,
                                       Top.schema, Top.is_object_schema))
               /\ visit_args' = Append(visit_args, raw)
               /\ stack' = Tail(stack)
               /\ pc' = pc
          ELSE /\ pc' = "failed"
               /\ UNCHANGED <<visit_log, visit_args, stack>>
       /\ result_status' = IF r.ok THEN result_status ELSE kAllocationNotFound
       /\ UNCHANGED schema_vars
       /\ UNCHANGED <<source_vars, call_vars, result_slice, result_schema,
                      visited, previsit_log, allocation_tracker, next_alloc>>

\* all children done: GetValue on each child, then the Visit* callback
VisitEffect(shape) ==
    LET args == VisitArgs(Top.item, Top.schema)
        vals == Values(args)
        r == IF AllOk(vals) THEN VisitCallback(shape, Unwrap(vals))
             ELSE [ok |-> FALSE, db |-> new_databag]
    IN /\ getvalue_log' = getvalue_log \cup SeqRange(args)
       /\ new_databag' = r.db
       /\ IF r.ok
          THEN /\ visit_log' = Append(visit_log,
                                 Frame(VisitName(shape), Top.item,
                                       Top.schema, Top.is_object_schema))
               /\ visit_args' = Append(visit_args, Unwrap(vals))
               /\ stack' = Tail(stack)
               /\ pc' = pc
          ELSE /\ pc' = "failed"
               /\ UNCHANGED <<visit_log, visit_args, stack>>
       /\ result_status' = IF r.ok THEN result_status ELSE kAllocationNotFound
       /\ UNCHANGED schema_vars
       /\ UNCHANGED <<source_vars, call_vars, result_slice, result_schema,
                      visited, previsit_log, allocation_tracker, next_alloc>>

TraverseVisitList ==
    /\ Visiting
    /\ Shape(Top.item, Top.schema) = "list"
    /\ VisitEffect("list")

TraverseVisitDict ==
    /\ Visiting
    /\ Shape(Top.item, Top.schema) = "dict"
    /\ VisitEffect("dict")

TraverseVisitObject ==
    /\ Visiting
    /\ Shape(Top.item, Top.schema) = "object"
    /\ VisitEffect("object")

TraverseVisitSchema ==
    /\ Visiting
    /\ Shape(Top.item, Top.schema) = "schema"
    /\ VisitEffect("schema")

\* mutant: the returned schema goes through GetValue too
Return_RemapSchema ==
    /\ pc = "running"
    /\ stack = <<>>
    /\ LET vals == [i \in 1..Len(ds) |->
                       GetValue(ds[i], schema, allocation_tracker,
                                is_schema_slice)]
       IN IF AllOk(vals)
          THEN /\ pc' = "done"
               /\ result_slice' = Unwrap(vals)
               /\ result_schema' = GetValue(schema, kSchema, allocation_tracker,
                                            is_schema_slice).v
               /\ UNCHANGED result_status
          ELSE /\ pc' = "failed"
               /\ result_status' = kAllocationNotFound
               /\ UNCHANGED <<result_slice, result_schema>>
    /\ UNCHANGED schema_vars
    /\ UNCHANGED <<source_vars, call_vars, stack, visited, previsit_log,
                   getvalue_log, visit_log, visit_args, allocation_tracker,
                   new_databag, next_alloc>>

\* mutant: the missing elements are left out of the returned slice
Return_PresentOnly ==
    /\ pc = "running"
    /\ stack = <<>>
    /\ LET vals == [i \in 1..Len(ds) |->
                       GetValue(ds[i], schema, allocation_tracker,
                                is_schema_slice)]
       IN IF AllOk(vals)
          THEN /\ pc' = "done"
               /\ result_slice' = SelectSeq(Unwrap(vals),
                                            LAMBDA v : v # Missing)
               /\ result_schema' = schema
               /\ UNCHANGED result_status
          ELSE /\ pc' = "failed"
               /\ result_status' = kAllocationNotFound
               /\ UNCHANGED <<result_slice, result_schema>>
    /\ UNCHANGED schema_vars
    /\ UNCHANGED <<source_vars, call_vars, stack, visited, previsit_log,
                   getvalue_log, visit_log, visit_args, allocation_tracker,
                   new_databag, next_alloc>>

\* mutant: a GetValue failure leaves a hole in the slice that is returned
Return_SliceOnFailure ==
    /\ pc = "running"
    /\ stack = <<>>
    /\ LET vals == [i \in 1..Len(ds) |->
                       GetValue(ds[i], schema, allocation_tracker,
                                is_schema_slice)]
       IN /\ pc' = IF AllOk(vals) THEN "done" ELSE "failed"
          /\ result_slice' = [i \in 1..Len(ds) |->
                                 IF vals[i].ok THEN vals[i].v ELSE Missing]
          /\ result_schema' = schema
          /\ result_status' = IF AllOk(vals) THEN result_status
                               ELSE kAllocationNotFound
    /\ UNCHANGED schema_vars
    /\ UNCHANGED <<source_vars, call_vars, stack, visited, previsit_log,
                   getvalue_log, visit_log, visit_args, allocation_tracker,
                   new_databag, next_alloc>>

\* TraverseSlice returned OK: every top-level element goes through GetValue
\* and the call returns the new slice with the schema it was given
Return ==
    /\ pc = "running"
    /\ stack = <<>>
    /\ LET vals == [i \in 1..Len(ds) |->
                       GetValue(ds[i], schema, allocation_tracker,
                                is_schema_slice)]
       IN IF AllOk(vals)
          THEN /\ pc' = "done"
               /\ result_slice' = Unwrap(vals)
               /\ result_schema' = schema
               /\ UNCHANGED result_status
          ELSE /\ pc' = "failed"
               /\ result_status' = kAllocationNotFound
               /\ UNCHANGED <<result_slice, result_schema>>
    /\ UNCHANGED schema_vars
    /\ UNCHANGED <<source_vars, call_vars, stack, visited, previsit_log,
                   getvalue_log, visit_log, visit_args, allocation_tracker,
                   new_databag, next_alloc>>

Next ==
    \/ Call
    \/ CallMirrored
    \/ TraversePrimitive
    \/ TraverseObjectSchema
    \/ TraverseVisited
    \/ TraverseExpand
    \/ TraverseFail
    \/ TraverseVisitList
    \/ TraverseVisitDict
    \/ TraverseVisitObject
    \/ TraverseVisitSchema
    \/ Return

Spec == Init /\ [][Next]_vars

\* ------------------------------------------------------------------------
\* schema_utils.cc: calls of the functions on schema items
\* ------------------------------------------------------------------------
InitSchemaUtils ==
    /\ databag = EmptyDatabag
    /\ fallback = EmptyDatabag
    /\ IdleDeepClone
    /\ NoSchemaUtilsCall
    /\ NewAggregator

\* DTypeMatrix::CommonDType(a, b) on two DTypeIds
CallCommonDType ==
    /\ \E a \in DTypeIds, b \in DTypeIds :
          /\ lhs' = a
          /\ rhs' = b
          /\ common' = CommonDType(a, b)
    /\ schema_item' = Missing
    /\ nofollow' = NoResult
    /\ nofollowed' = NoResult
    /\ UNCHANGED <<deep_clone_vars, aggregator_vars>>

\* the schema items NoFollowSchemaItem is called on: the DTypes, explicit
\* and implicit entity schemas, nofollow schemas, items that are no schemas
NoFollowInputs ==
    (DOMAIN GetDTypeLattice)
    \cup {SA, SB, SL, SD, I0, I1}
    \cup {CreateNoFollowWithMainObject(SA), CreateNoFollowWithMainObject(I0),
          NoFollowObjectSchemaId}
    \cup {a0, l0, d0, Prim(1), Missing}

CallNoFollowSchemaItem ==
    /\ \E s \in NoFollowInputs :
          /\ schema_item' = s
          /\ nofollow' = NoFollowSchemaItem(s)
    /\ nofollowed' = NoResult
    /\ lhs' = kUnknownDType
    /\ rhs' = kUnknownDType
    /\ common' = kUnknownDType
    /\ UNCHANGED <<deep_clone_vars, aggregator_vars>>

\* GetNoFollowedSchemaItem on the nofollow schema the last call returned
CallGetNoFollowedSchemaItem ==
    /\ nofollow.ok
    /\ nofollowed' = GetNoFollowedSchemaItem(nofollow.v)
    /\ UNCHANGED <<deep_clone_vars, aggregator_vars, lhs, rhs, common,
                   schema_item, nofollow>>

NextSchemaUtils ==
    \/ CallCommonDType
    \/ CallNoFollowSchemaItem
    \/ CallGetNoFollowedSchemaItem

SpecSchemaUtils == InitSchemaUtils /\ [][NextSchemaUtils]_vars

\* the enumerations of a set of DTypes: the order in which the DTypeIds list
\* the bits of seen_dtypes_
Orderings(S) ==
    {f \in [1..Cardinality(S) -> S] :
        \A i, j \in 1..Cardinality(S) : f[i] = f[j] => i = j}

\* mutant: every DType is joined with the first one only
FoldCommonDType_FirstOnly(res_dtype_id, rest) ==
    IF rest = <<>> THEN [ok |-> TRUE, res |-> DType(res_dtype_id)]
    ELSE LET last == CommonDType(res_dtype_id, TypeId(rest[Len(rest)]))
         IN IF \E i \in 1..Len(rest) :
                   CommonDType(res_dtype_id, TypeId(rest[i])) = kUnknownDType
            THEN [ok |-> FALSE, res |-> Missing]
            ELSE [ok |-> TRUE, res |-> DType(last)]

\* the loop of CommonDTypeAggregator::Get: res_dtype_id is joined with the
\* DTypes of rest, least DTypeId first
RECURSIVE FoldCommonDType(_, _)
FoldCommonDType(res_dtype_id, rest) ==
    IF rest = <<>> THEN [ok |-> TRUE, res |-> DType(res_dtype_id)]
    ELSE LET common_dtype_id == CommonDType(res_dtype_id, TypeId(Head(rest)))
         IN IF common_dtype_id = kUnknownDType
            THEN [ok |-> FALSE, res |-> Missing]
            ELSE FoldCommonDType(common_dtype_id, Tail(rest))

\* CommonDTypeAggregator::Get on the seen DTypes listed by increasing
\* DTypeId; ok = FALSE: status is set to "no common schema"; res = Missing:
\* std::nullopt
CommonDTypeAggregatorGet(seen) ==
    IF seen = <<>> THEN [ok |-> TRUE, res |-> Missing]
    ELSE FoldCommonDType(TypeId(Head(seen)), Tail(seen))

\* the schema items handed to CommonSchemaAggregator::Add
AddInputs == (DOMAIN GetDTypeLattice) \cup {SA, SB, a0, Prim(1)}

\* mutant: a second entity schema takes the place of the first without error
CommonSchemaAggregatorAdd_LastWins ==
    /\ ~get_result.called
    /\ \E item \in AddInputs :
          /\ added' = added \cup {item}
          /\ IF item.t = "dtype"
             THEN /\ Cardinality(seen_dtypes \cup {item}) <= MaxSeenDTypes
                  /\ seen_dtypes' = seen_dtypes \cup {item}
                  /\ UNCHANGED <<res_object_id, status>>
             ELSE IF HoldsObjectId(item)
             THEN /\ UNCHANGED seen_dtypes
                  /\ IF ~IsSchema(item)
                     THEN /\ status' = "expected a schema ObjectId"
                          /\ UNCHANGED res_object_id
                     ELSE /\ res_object_id' = item
                          /\ UNCHANGED status
             ELSE /\ status' = "expected Schema"
                  /\ UNCHANGED <<seen_dtypes, res_object_id>>
    /\ UNCHANGED <<deep_clone_vars, schema_utils_vars, get_result, schema_ids>>

\* CommonSchemaAggregator::Add(const DataItem&), with the Add(ObjectId) and
\* Add(DType) it forwards to
CommonSchemaAggregatorAdd ==
    /\ ~get_result.called
    /\ \E item \in AddInputs :
          /\ added' = added \cup {item}
          /\ IF item.t = "dtype"
             THEN /\ Cardinality(seen_dtypes \cup {item}) <= MaxSeenDTypes
                  /\ seen_dtypes' = seen_dtypes \cup {item}
                  /\ UNCHANGED <<res_object_id, status>>
             ELSE IF HoldsObjectId(item)
             THEN /\ UNCHANGED seen_dtypes
                  /\ IF ~IsSchema(item)
                     THEN /\ status' = "expected a schema ObjectId"
                          /\ UNCHANGED res_object_id
                     ELSE IF res_object_id = Missing
                     THEN /\ res_object_id' = item
                          /\ UNCHANGED status
                     ELSE /\ status' = IF res_object_id # item
                                       THEN "no common schema" ELSE status
                          /\ UNCHANGED res_object_id
             ELSE /\ status' = "expected Schema"
                  /\ UNCHANGED <<seen_dtypes, res_object_id>>
    /\ UNCHANGED <<deep_clone_vars, schema_utils_vars, get_result, schema_ids>>

\* mutant: an entity schema is returned whatever the joined DType is
CommonSchemaAggregatorGet_EntityWins ==
    /\ ~get_result.called
    /\ \E seen \in Orderings(seen_dtypes) :
          LET r == CommonDTypeAggregatorGet(seen)
              res_dtype == r.res
              st == IF r.ok THEN status ELSE "no common schema"
              Returned(ok, v, error) ==
                  [called |-> TRUE, ok |-> ok, v |-> v, error |-> error,
                   res_dtype |-> res_dtype]
          IN /\ status' = st
             /\ get_result' =
                   IF st # "ok" THEN Returned(FALSE, Missing, st)
                   ELSE IF res_dtype # Missing /\ res_object_id = Missing
                   THEN Returned(TRUE, res_dtype, "")
                   ELSE IF res_object_id # Missing
                   THEN Returned(TRUE, res_object_id, "")
                   ELSE Returned(TRUE, kObject, "")
    /\ UNCHANGED <<deep_clone_vars, schema_utils_vars, seen_dtypes,
                   res_object_id, added, schema_ids>>

\* CommonSchemaAggregator::Get, with the CommonDTypeAggregator::Get it calls
CommonSchemaAggregatorGet ==
    /\ ~get_result.called
    /\ \E seen \in Orderings(seen_dtypes) :
          LET r == CommonDTypeAggregatorGet(seen)
              res_dtype == r.res
              st == IF r.ok THEN status ELSE "no common schema"
              Returned(ok, v, error) ==
                  [called |-> TRUE, ok |-> ok, v |-> v, error |-> error,
                   res_dtype |-> res_dtype]
          IN /\ status' = st
             /\ get_result' =
                   IF st # "ok" THEN Returned(FALSE, Missing, st)
                   ELSE IF res_dtype # Missing /\ res_object_id = Missing
                   THEN Returned(TRUE, res_dtype, "")
                   ELSE IF (res_dtype = Missing \/ res_dtype = kNone)
                           /\ res_object_id # Missing
                   THEN Returned(TRUE, res_object_id, "")
                   ELSE IF res_object_id = Missing
                   THEN Returned(TRUE, kObject, "")
                   ELSE Returned(FALSE, Missing, "no common schema")
    /\ UNCHANGED <<deep_clone_vars, schema_utils_vars, seen_dtypes,
                   res_object_id, added, schema_ids>>

NextAggregator ==
    \/ CommonSchemaAggregatorAdd
    \/ CommonSchemaAggregatorGet

SpecAggregator == InitSchemaUtils /\ [][NextAggregator]_vars

\* ------------------------------------------------------------------------
\* Properties
\* ------------------------------------------------------------------------
\* the clone map of the current call
CloneOf(o) == GetValue(o, schema, allocation_tracker, is_schema_slice)

\* an explicit schema in a call whose declared schema is not SCHEMA
IsSharedSchema(o) == IsSchema(o) /\ ~IsImplicitSchema(o) /\ ~is_schema_slice

\* the Visit* calls made for ObjectIds
ObjectVisits ==
    {visit_log[i] : i \in {j \in 1..Len(visit_log) :
                              visit_log[j].op # "VisitPrimitive"}}

NewAttr(obj, name) == GetAttr(new_databag, EmptyDatabag, obj, name)

NewSchemaAttr(obj, name) == GetSchemaAttr(new_databag, EmptyDatabag, obj, name)

NewList(list) == ExplodeList(new_databag, EmptyDatabag, list)

NewDictValue(dict, key) == GetFromDict(new_databag, EmptyDatabag, dict, key)

\* C1 (as stated): after a successful DeepClone every reachable ObjectId o
\* has a clone o' with o' # o.
C1_CloneDistinct ==
    pc = "done" =>
        \A o \in visited : CloneOf(o).ok /\ CloneOf(o).v # o

\* C1 (amended): after a successful DeepClone every reachable ObjectId o has
\* a clone o' with o' # o, except the explicit schemas of a call whose
\* declared schema is not SCHEMA, which are their own clone.
C1_CloneDistinctButSharedSchemas ==
    pc = "done" =>
        \A o \in visited :
            /\ CloneOf(o).ok
            /\ IF IsSharedSchema(o) THEN CloneOf(o).v = o
               ELSE CloneOf(o).v # o

C1_Witness ==
    /\ pc = "done"
    /\ \E o \in visited : ~IsSchema(o) /\ CloneOf(o).v # o
    /\ \E s \in visited : IsSharedSchema(s)
    /\ \E i \in visited : IsImplicitSchema(i)

\* C2: two objects of one source allocation are cloned into one destination
\* allocation, at the same distance of offsets.
C2_AllocationCoherence ==
    \A x \in visited, y \in visited :
        AllocationId(x) = AllocationId(y) =>
            /\ CloneOf(x).ok /\ CloneOf(y).ok
            /\ AllocationId(CloneOf(x).v) = AllocationId(CloneOf(y).v)
            /\ CloneOf(x).v.o - CloneOf(y).v.o = x.o - y.o

C2_Witness ==
    /\ pc = "done"
    /\ \E x \in visited, y \in visited :
          /\ x # y
          /\ AllocationId(x) = AllocationId(y)
          /\ CloneOf(x).v # x

\* the references of a visited object are cloned references in the
\* destination, at the same place of the clone
RefsPreserved(e) ==
    LET new == CloneOf(e.item).v
        names == SchemaAttrNames(databag, fallback,
                                 IF e.op = "VisitSchema" THEN e.item
                                 ELSE e.schema)
        items == ExplodeList(databag, fallback, e.item)
        keys == GetDictKeys(databag, fallback, e.item)
    IN CASE e.op = "VisitObject" ->
              \A n \in SeqRange(names) :
                  LET v == GetAttr(databag, fallback, e.item, n) IN
                  HoldsObjectId(v) => NewAttr(new, n) = CloneOf(v).v
         [] e.op = "VisitSchema" ->
              \A n \in SeqRange(names) :
                  LET v == GetSchemaAttr(databag, fallback, e.item, n) IN
                  HoldsObjectId(v) => NewSchemaAttr(new, n) = CloneOf(v).v
         [] e.op = "VisitList" ->
              /\ Len(NewList(new)) = Len(items)
              /\ \A i \in 1..Len(items) :
                    HoldsObjectId(items[i]) =>
                        NewList(new)[i] = CloneOf(items[i]).v
         [] OTHER ->
              \A i \in 1..Len(keys) :
                  NewDictValue(new, CloneOf(keys[i]).v) =
                      CloneOf(GetFromDict(databag, fallback, e.item,
                                          keys[i])).v

\* C3: every reference a -> b between reachable objects (attribute, schema
\* attribute, list element, dict key, dict value; self references and cycles
\* included) is clone(a) -> clone(b) in the destination.
C3_ReferencesPreserved ==
    pc = "done" => \A e \in ObjectVisits : RefsPreserved(e)

\* a cycle a0 -> a1 -> a0, or a schema that refers to itself, was cloned
C3_Witness ==
    /\ pc = "done"
    /\ \/ /\ GetAttr(databag, fallback, a0, "next") = a1
          /\ GetAttr(databag, fallback, a1, "next") = a0
          /\ {a0, a1} \subseteq visited
          /\ NewAttr(CloneOf(a0).v, "next") = CloneOf(a1).v
          /\ NewAttr(CloneOf(a1).v, "next") = CloneOf(a0).v
          /\ CloneOf(a0).v # a0
       \/ /\ is_schema_slice
          /\ SB \in visited
          /\ CloneOf(SB).v # SB
          /\ NewSchemaAttr(CloneOf(SB).v, "self") = CloneOf(SB).v

\* C4: outside a SCHEMA slice an explicit schema is never forked: it has no
\* entry in the allocation tracker, it is its own clone, and the clones that
\* carry a __schema__ carry the source schema id.
C4_ExplicitSchemaShared ==
    ~is_schema_slice =>
        /\ \A al \in DOMAIN allocation_tracker : al.k # "explicit"
        /\ \A s \in visited :
              (IsSchema(s) /\ ~IsImplicitSchema(s)) =>
                  CloneOf(s) = [ok |-> TRUE, v |-> s]
        /\ \A e \in ObjectVisits :
              (e.is_object_schema /\ ~IsImplicitSchema(e.schema)) =>
                  NewAttr(CloneOf(e.item).v, kSchemaAttr) = e.schema

C4_Witness ==
    /\ pc = "done"
    /\ ~is_schema_slice
    /\ \E e \in ObjectVisits :
          /\ e.is_object_schema
          /\ ~IsImplicitSchema(e.schema)
          /\ e.schema \in visited
          /\ NewAttr(CloneOf(e.item).v, kSchemaAttr) = e.schema
    /\ \E e \in ObjectVisits :
          /\ ~e.is_object_schema
          /\ IsSchema(e.schema) /\ ~IsImplicitSchema(e.schema)
          /\ e.schema \in visited

\* the __schema__ the destination holds for the clone of a visited object
ClonedSchemaOf(e) == NewAttr(CloneOf(e.item).v, kSchemaAttr)

\* C5: the implicit schema of an object cloned under OBJECT is forked: the
\* clone's __schema__ is another schema id, and two distinct implicit
\* schemas are forked to two distinct schemas.
C5_ImplicitSchemaForked ==
    pc = "done" =>
        \A e \in ObjectVisits, f \in ObjectVisits :
            (/\ e.is_object_schema /\ IsImplicitSchema(e.schema)
             /\ f.is_object_schema /\ IsImplicitSchema(f.schema)) =>
                /\ IsSchema(ClonedSchemaOf(e))
                /\ ClonedSchemaOf(e) # e.schema
                /\ (e.schema # f.schema =>
                        ClonedSchemaOf(e) # ClonedSchemaOf(f))

C5_Witness ==
    /\ pc = "done"
    /\ \E e \in ObjectVisits, f \in ObjectVisits :
          /\ e.is_object_schema /\ IsImplicitSchema(e.schema)
          /\ f.is_object_schema /\ IsImplicitSchema(f.schema)
          /\ e.schema # f.schema
          /\ ClonedSchemaOf(e) # ClonedSchemaOf(f)

\* C6: a successful call returns the schema it was given.
C6_SchemaPassedThrough == pc = "done" => result_schema = schema

\* the declared schema is an implicit schema that the call forked
C6_Witness ==
    /\ pc = "done"
    /\ result_schema = schema
    /\ IsImplicitSchema(schema)
    /\ AllocationId(schema) \in DOMAIN allocation_tracker

\* the destination id the allocation tracker gives a source object
Mapped(o) == ObjectByOffset(allocation_tracker[AllocationId(o)], o.o)

\* C7: the returned slice is aligned with the input slice: same size, the
\* missing and primitive items unchanged, the ObjectIds replaced by their
\* clones.
C7_SliceAligned ==
    pc = "done" =>
        /\ Len(result_slice) = Len(ds)
        /\ \A i \in 1..Len(ds) :
              IF ~HoldsObjectId(ds[i]) THEN result_slice[i] = ds[i]
              ELSE IF IsSharedSchema(ds[i]) THEN result_slice[i] = ds[i]
              ELSE /\ AllocationId(ds[i]) \in DOMAIN allocation_tracker
                   /\ result_slice[i] = Mapped(ds[i])
                   /\ result_slice[i] # ds[i]

C7_Witness ==
    /\ pc = "done"
    /\ \E i \in 1..Len(ds), j \in 1..Len(ds), m \in 1..Len(ds) :
          /\ i < j /\ j < m
          /\ ds[i].t = "obj" /\ result_slice[i] = Mapped(ds[i])
          /\ ds[j].t = "missing" /\ result_slice[j] = Missing
          /\ ds[m].t \in {"prim", "obj"} /\ result_slice[m].t = ds[m].t

\* The triples a successful clone owes the destination for one visited
\* object: its content in the source, every id renamed by the clone map.
OwedAttrs(e) ==
    LET new == CloneOf(e.item).v
        names == SchemaAttrNames(databag, fallback, e.schema)
    IN (IF e.is_object_schema
        THEN {<<new, kSchemaAttr, CloneOf(e.schema).v>>} ELSE {})
       \cup
       (IF e.op = "VisitObject"
        THEN {<<new, n, CloneOf(GetAttr(databag, fallback, e.item, n)).v>> :
                 n \in SeqRange(names)}
        ELSE {})

OwedSchemaAttrs(e) ==
    LET new == CloneOf(e.item).v
        names == SchemaAttrNames(databag, fallback, e.item)
    IN IF e.op = "VisitSchema"
       THEN {<<new, n, CloneOf(GetSchemaAttr(databag, fallback, e.item, n)).v>> :
                n \in SeqRange(names)}
       ELSE {}

OwedDictEntries(e) ==
    LET new == CloneOf(e.item).v
        keys == GetDictKeys(databag, fallback, e.item)
    IN IF e.op = "VisitDict"
       THEN {<<new, CloneOf(k).v,
               CloneOf(GetFromDict(databag, fallback, e.item, k)).v>> :
                k \in SeqRange(keys)}
       ELSE {}

OwedList(list) ==
    LET items == ExplodeList(databag, fallback, list)
    IN [i \in 1..Len(items) |-> CloneOf(items[i]).v]

OwedDatabag ==
    LET lists == {e.item : e \in {f \in ObjectVisits : f.op = "VisitList"}}
    IN [attrs |-> MapOf(UNION {OwedAttrs(e) : e \in ObjectVisits}),
        schema_attrs |-> MapOf(UNION {OwedSchemaAttrs(e) : e \in ObjectVisits}),
        lists |-> [new \in {CloneOf(l).v : l \in lists} |->
                      OwedList(CHOOSE l \in lists : CloneOf(l).v = new)],
        dicts |-> MapOf(UNION {OwedDictEntries(e) : e \in ObjectVisits})]

\* the ObjectIds a databag says something about
Subjects(db) ==
    {k[1] : k \in DOMAIN db.attrs} \cup {k[1] : k \in DOMAIN db.schema_attrs}
    \cup (DOMAIN db.lists) \cup {k[1] : k \in DOMAIN db.dicts}

Count(log, o) == Cardinality({i \in 1..Len(log) : log[i].item = o})

VisitCount(o) ==
    Cardinality({i \in 1..Len(visit_log) :
                    visit_log[i].item = o /\ visit_log[i].op # "VisitPrimitive"})

\* C9 (as stated): in one traversal each reachable ObjectId is Previsited
\* exactly once and Visited exactly once.
C9_PrevisitedOnceVisitedOnce ==
    pc = "done" =>
        \A o \in visited : Count(previsit_log, o) = 1 /\ VisitCount(o) = 1

\* C9 (amended): in one traversal each reachable ObjectId is Visited exactly
\* once and Previsited at least once; an object reached under OBJECT is
\* Previsited with OBJECT and with its own schema, and an object referenced
\* from several places is Previsited once per reference.
C9_VisitedOncePrevisitedAtLeastOnce ==
    /\ \A o \in visited : Count(previsit_log, o) >= 1 /\ VisitCount(o) <= 1
    /\ pc = "done" => \A o \in visited : VisitCount(o) = 1
    /\ \A e \in ObjectVisits : e.item \in visited
    /\ \A e \in ObjectVisits :
          e.is_object_schema =>
              /\ Pair(e.item, kObject) \in SeqRange(previsit_log)
              /\ Pair(e.item, e.schema) \in SeqRange(previsit_log)

\* an object referenced by two containers, and an object under OBJECT
C9_Witness ==
    /\ pc = "done"
    /\ schema = kObject
    /\ \E o \in visited : Count(previsit_log, o) > 2 /\ VisitCount(o) = 1
    /\ \E e \in ObjectVisits : e.is_object_schema
    /\ \E e \in ObjectVisits : e.op = "VisitList"
    /\ \E i \in 1..Len(visit_log) : visit_log[i].op = "VisitPrimitive"

\* C10: the traverser calls GetValue(item, schema) only after it has called
\* Previsit(item, schema), missing items and primitives included.
C10_GetValueAfterPrevisit == getvalue_log \subseteq SeqRange(previsit_log)

\* GetValue was called for a missing item, a primitive and a reference that
\* closes a cycle
C10_Witness ==
    /\ \E p \in getvalue_log : p.item = Missing
    /\ \E p \in getvalue_log : p.item.t = "prim"
    /\ \E p \in getvalue_log : p.item = a0 /\ p.schema = SA
    /\ GetAttr(databag, fallback, a0, "next") = a0
    /\ getvalue_log \subseteq SeqRange(previsit_log)

\* the source children of the i-th Visit* call, each through GetValue
ExpectedArgs(i) ==
    Values(VisitArgs(visit_log[i].item, visit_log[i].schema))

\* a value GetValue can return for a child that holds an ObjectId: the id of
\* a fresh allocation, or an explicit schema shared with the source
IsGetValueResult(v) ==
    HoldsObjectId(v) => (v.a >= FirstFreshBase \/ IsSharedSchema(v))

\* C11: every element of the items, keys, values, attr_values and attr_schema
\* arguments of a Visit* callback is the value GetValue returns for the
\* corresponding source child; a raw source child is never passed.
C11_VisitArgsAreGetValueResults ==
    /\ Len(visit_args) = Len(visit_log)
    /\ \A i \in 1..Len(visit_log) :
          visit_log[i].op # "VisitPrimitive" =>
              /\ AllOk(ExpectedArgs(i))
              /\ visit_args[i] = Unwrap(ExpectedArgs(i))
              /\ \A j \in 1..Len(visit_args[i]) :
                    IsGetValueResult(visit_args[i][j])

\* a list handed a clone, a missing item and a clone; a dict, an object and a
\* schema record handed cloned children
C11_Witness ==
    /\ pc = "done"
    /\ \E i \in 1..Len(visit_log) :
          /\ visit_log[i].op = "VisitList"
          /\ Len(visit_args[i]) = 3
          /\ visit_args[i][2] = Missing
          /\ HoldsObjectId(visit_args[i][1])
          /\ visit_args[i][1] # ExplodeList(databag, fallback,
                                            visit_log[i].item)[1]
    /\ \E i \in 1..Len(visit_log) :
          /\ visit_log[i].op = "VisitObject"
          /\ \E j \in 1..Len(visit_args[i]) : HoldsObjectId(visit_args[i][j])
    /\ \E i \in 1..Len(visit_log) :
          /\ visit_log[i].op = "VisitSchema"
          /\ \E j \in 1..Len(visit_args[i]) : HoldsObjectId(visit_args[i][j])

\* Previsit(o, OBJECT) for an ObjectId o is the i-th Previsit call
IsObjectPrevisit(i) ==
    HoldsObjectId(previsit_log[i].item) /\ previsit_log[i].schema = kObject

\* Previsit(o, S) for an ObjectId o and an entity-schema ObjectId S is the
\* i-th Previsit call
IsEntityPrevisit(i) ==
    HoldsObjectId(previsit_log[i].item) /\ HoldsObjectId(previsit_log[i].schema)

MinBase(tr) ==
    IF DOMAIN tr = {} THEN FirstFreshBase
    ELSE CHOOSE b \in {tr[x].a : x \in DOMAIN tr} :
             \A x \in DOMAIN tr : b <= tr[x].a

\* an item with the ids of fresh allocations counted from the first
\* allocation of the call
Normal(v, tr) ==
    IF HoldsObjectId(v) /\ v.a >= FirstFreshBase
    THEN [v EXCEPT !.a = v.a - MinBase(tr)]
    ELSE v

NormalDatabag(db, tr) ==
    [attrs |-> MapOf({<<Normal(k[1], tr), k[2], Normal(db.attrs[k], tr)>> :
                         k \in DOMAIN db.attrs}),
     schema_attrs |->
         MapOf({<<Normal(k[1], tr), k[2], Normal(db.schema_attrs[k], tr)>> :
                   k \in DOMAIN db.schema_attrs}),
     lists |-> [l \in {Normal(x, tr) : x \in DOMAIN db.lists} |->
                  LET src == CHOOSE x \in DOMAIN db.lists : Normal(x, tr) = l
                  IN [i \in 1..Len(db.lists[src]) |->
                         Normal(db.lists[src][i], tr)]],
     dicts |-> MapOf({<<Normal(k[1], tr), Normal(k[2], tr),
                        Normal(db.dicts[k], tr)>> : k \in DOMAIN db.dicts})]

NormalSlice(slice, tr) == [i \in 1..Len(slice) |-> Normal(slice[i], tr)]

\* C13: DeepClone gives the same outcome whether the source content is held
\* by the main databag or by the single fallback: both calls succeed or both
\* fail, and on success the destinations and the returned slices are equal
\* up to the choice of fresh ids.
C13_MainFallbackEquivalent ==
    (previous_call # NoCall /\ pc \in {"done", "failed"}) =>
        /\ pc = previous_call.pc
        /\ pc = "done" =>
              /\ NormalDatabag(new_databag, allocation_tracker)
                    = NormalDatabag(previous_call.new_databag,
                                    previous_call.allocation_tracker)
              /\ NormalSlice(result_slice, allocation_tracker)
                    = NormalSlice(previous_call.result_slice,
                                  previous_call.allocation_tracker)

\* a slice of objects, a list and missing items cloned from the main databag
\* and then again from the fallback; and a pair of calls that both fail
C13_Witness ==
    /\ previous_call.pc = "done"
    /\ pc = "done"
    /\ fallback # EmptyDatabag
    /\ databag = EmptyDatabag
    /\ new_databag.lists # EmptyMap
    /\ new_databag.attrs # EmptyMap
    /\ new_databag # previous_call.new_databag
    /\ Len(result_slice) = 5

\* the DTypes reachable from the DTypes of S along the edges of the lattice
RECURSIVE UpSet(_)
UpSet(S) ==
    LET T == S \cup UNION {GetDTypeLattice[d] : d \in S}
    IN IF T = S THEN S ELSE UpSet(T)

\* the ids of the DTypes reachable from both a and b
UpperBounds(a, b) ==
    {TypeId(d) : d \in UpSet({DType(a)}) \cap UpSet({DType(b)})}

\* r is a least upper bound of a and b
IsLeastUpperBound(r, a, b) ==
    /\ r \in UpperBounds(a, b)
    /\ \A u \in UpperBounds(a, b) : DType(u) \in UpSet({DType(r)})

\* C14: over the 14 DTypes of the lattice CommonDType is idempotent and
\* commutative, and NONE is its bottom: CommonDType(NONE, x) == x.
C14_IdempotentCommutativeNoneBottom ==
    lhs \in DTypeIds =>
        /\ Cardinality(DOMAIN GetDTypeLattice) = kNextDTypeId
        /\ lhs = rhs => common = lhs
        /\ common = CommonDType(rhs, lhs)
        /\ lhs = TypeId(kNone) => common = rhs

\* CommonDType(NONE, ITEMID) was computed
C14_Witness ==
    /\ lhs = TypeId(kNone)
    /\ rhs = TypeId(kItemId)
    /\ common = TypeId(kItemId)

\* C15: CommonDType(a, b) is undefined exactly when no type is reachable
\* from both a and b; otherwise it is their least upper bound.
C15_LeastUpperBound ==
    lhs \in DTypeIds =>
        /\ common = kUnknownDType <=> UpperBounds(lhs, rhs) = {}
        /\ common # kUnknownDType => IsLeastUpperBound(common, lhs, rhs)

\* a pair with several common upper bounds, and a pair with none
C15_Witness ==
    \/ /\ lhs = TypeId(kInt64)
       /\ rhs = TypeId(kText)
       /\ common = TypeId(kObject)
       /\ UpperBounds(lhs, rhs) = {TypeId(kObject), TypeId(kAny)}
    \/ /\ lhs = TypeId(kSchema)
       /\ rhs = TypeId(kInt32)
       /\ common = kUnknownDType

\* the ids of the DTypes reachable from every DType of the set D
SetUpperBounds(D) ==
    {u \in DTypeIds : \A d \in D : DType(u) \in UpSet({d})}

\* C16: for a non-empty set of DTypes added to a CommonDTypeAggregator, in
\* any order and with repetitions, Get returns the least upper bound of the
\* set when the set has a common upper bound and fails with "no common
\* schema" otherwise; the pairwise fold never fails on a set that has a
\* common upper bound.
C16_AggregatorLeastUpperBound ==
    (get_result.called /\ seen_dtypes # {}) =>
        IF SetUpperBounds(seen_dtypes) # {}
        THEN /\ get_result.res_dtype # Missing
             /\ TypeId(get_result.res_dtype) \in SetUpperBounds(seen_dtypes)
             /\ \A u \in SetUpperBounds(seen_dtypes) :
                   DType(u) \in UpSet({get_result.res_dtype})
             /\ (status = "ok" /\ res_object_id = Missing) =>
                   (get_result.ok /\ get_result.v = get_result.res_dtype)
        ELSE /\ get_result.res_dtype = Missing
             /\ ~get_result.ok
             /\ get_result.error = "no common schema"
             /\ status = "no common schema"

\* {INT32, FLOAT32} yields FLOAT32; three DTypes joined
C16_Witness ==
    \/ /\ seen_dtypes = {kInt32, kFloat32}
       /\ get_result.called
       /\ get_result.ok
       /\ get_result.v = kFloat32
    \/ /\ seen_dtypes = {kNone, kInt64, kBool}
       /\ get_result.called
       /\ get_result.v = kObject

\* the DTypes and the entity schemas among the added items
AddedDTypes == {x \in added : x.t = "dtype"}

AddedEntitySchemas == {x \in added : IsSchema(x)}

\* no Add raised an error: DTypes and at most one entity schema were added
AddsRaisedNoError ==
    /\ added = AddedDTypes \cup AddedEntitySchemas
    /\ Cardinality(AddedEntitySchemas) <= 1

\* C17: after Adds that raised no error, Get returns the joined DType when
\* only DTypes were added, the entity schema when one was added and the
\* joined DType is absent or NONE, OBJECT when nothing was added, and fails
\* with "no common schema" when an entity schema was added together with a
\* joined DType other than NONE.
C17_CommonSchemaGet ==
    (get_result.called /\ AddsRaisedNoError) =>
        /\ seen_dtypes = AddedDTypes
        /\ (AddedEntitySchemas = {} /\ SetUpperBounds(AddedDTypes) # {}
               /\ AddedDTypes # {}) =>
              /\ get_result.ok
              /\ get_result.v.t = "dtype"
              /\ TypeId(get_result.v) \in SetUpperBounds(AddedDTypes)
              /\ \A u \in SetUpperBounds(AddedDTypes) :
                    DType(u) \in UpSet({get_result.v})
        /\ (AddedEntitySchemas # {} /\ AddedDTypes \subseteq {kNone}) =>
              (get_result.ok /\ get_result.v \in AddedEntitySchemas)
        /\ added = {} => (get_result.ok /\ get_result.v = kObject)
        /\ (AddedEntitySchemas # {} /\ ~(AddedDTypes \subseteq {kNone})) =>
              (~get_result.ok /\ get_result.error = "no common schema")

\* INT32 with an explicit entity schema: no common schema
C17_Witness ==
    /\ added = {kInt32, SA}
    /\ get_result.called
    /\ ~get_result.ok
    /\ get_result.error = "no common schema"
    /\ get_result.res_dtype = kInt32

AnyReached == \E i \in 1..Len(previsit_log) : previsit_log[i].schema = kAny

\* C19 (as stated): whenever the declared schema of the slice, or the schema
\* of an item reached during the traversal, is ANY, the call returns an
\* error and no cloned slice.
C19_AnyRefused ==
    /\ AnyReached => (pc = "failed" /\ result_slice = <<>>)
    /\ schema = kAny => pc # "done"

\* C19 (amended): whenever an item, present or missing, is reached under the
\* ANY schema, the call returns an error and no cloned slice; this is the
\* case of every non-empty slice declared ANY.  A call on an empty slice
\* declared ANY reaches nothing and returns the empty slice.  ANY met as an
\* item of a schema record is not refused.
C19_AnyRefusedWhenReached ==
    /\ AnyReached => (pc = "failed" /\ result_slice = <<>>)
    /\ (schema = kAny /\ ds # <<>>) => pc # "done"
    /\ \A i \in 1..Len(visit_log) : visit_log[i].schema # kAny
    /\ \A p \in getvalue_log : p.schema # kAny

\* the attribute x of a1, of schema ANY, makes the call on a slice of SX
\* entities fail
C19_Witness ==
    /\ pc = "failed"
    /\ schema = SX
    /\ previsit_log[Len(previsit_log)] = Pair(Prim(2), kAny)
    /\ result_slice = <<>>

\* a schema item NoFollowSchemaItem accepts: OBJECT, or an entity schema
\* that is not nofollow already
CanBeNoFollowed(s) == s = kObject \/ (IsSchema(s) /\ ~IsNoFollowSchema(s))

\* C20: for every schema item s that is OBJECT or an entity schema that is
\* not nofollow already, NoFollowSchemaItem(s) succeeds with a nofollow
\* schema ObjectId n and GetNoFollowedSchemaItem(n) == s; NoFollowSchemaItem
\* fails on primitive DTypes, ANY, ITEMID and on a nofollow schema.
C20_NoFollowRoundTrip ==
    /\ CanBeNoFollowed(schema_item) =>
          /\ nofollow.ok
          /\ HoldsObjectId(nofollow.v)
          /\ IsNoFollowSchema(nofollow.v)
          /\ GetNoFollowedSchemaItem(nofollow.v) = [ok |-> TRUE, v |-> schema_item]
          /\ nofollowed \in {NoResult, [ok |-> TRUE, v |-> schema_item]}
    /\ ((schema_item.t = "dtype" /\ schema_item # kObject)
           \/ IsNoFollowSchema(schema_item)) => ~nofollow.ok
    /\ nofollow.ok => CanBeNoFollowed(schema_item)

\* the round trip of an explicit entity schema
C20_Witness ==
    /\ schema_item = SA
    /\ nofollow.ok
    /\ nofollow.v # SA
    /\ nofollowed = [ok |-> TRUE, v |-> SA]

\* the (item, schema) pairs one step of the walk leads to from the pairs of P
ReachStep(P) ==
    P \cup UNION {SeqRange(Children(p.item, p.schema)) :
                     p \in {q \in P : /\ ~IsLeaf(q.item, q.schema)
                                      /\ q.schema \notin {kObject, kAny}}}
      \cup {Pair(p.item, ObjectSchemaOf(p.item)) :
               p \in {q \in P : /\ HoldsObjectId(q.item)
                                /\ q.schema = kObject
                                /\ ObjectSchemaOf(q.item) # Missing}}

RECURSIVE ReachClosure(_)
ReachClosure(P) == IF ReachStep(P) = P THEN P ELSE ReachClosure(ReachStep(P))

\* the (item, schema) pairs reachable from the slice of the current call
ReachablePairs == ReachClosure({Pair(ds[i], schema) : i \in 1..Len(ds)})

ReachableObjects == {p.item : p \in {q \in ReachablePairs : HoldsObjectId(q.item)}}

\* the objects expanded so far, each with the schema it was expanded under:
\* those whose Visit* is pending on the stack and those already visited
Expanded ==
    {Pair(stack[i].item, stack[i].schema) :
        i \in {j \in 1..Len(stack) : stack[j].op = "visit"}}
    \cup {Pair(e.item, e.schema) : e \in ObjectVisits}

RECURSIVE SumChildren(_)
SumChildren(P) ==
    IF P = {} THEN 0
    ELSE LET p == CHOOSE q \in P : TRUE
         IN Len(Children(p.item, p.schema)) + SumChildren(P \ {p})

\* the reaches the walk has been asked for so far: the elements of the slice,
\* the children of the expanded objects, and one more reach, under its own
\* schema, for each object met under OBJECT
ReachesAsked ==
    Len(ds) + SumChildren(Expanded)
    + Cardinality({i \in 1..Len(previsit_log) : IsObjectPrevisit(i)})

ReachesPending ==
    Cardinality({i \in 1..Len(stack) : stack[i].op = "reach"})

Terminates == (pc = "running") ~> (pc \in {"done", "failed"})

CommonUpperBounds(a, b) == GetReachableDTypes[a] \cap GetReachableDTypes[b]

\* the common upper bounds of a and b from which all of them are reachable
LeastOfCommonUpperBounds(a, b) ==
    {i \in CommonUpperBounds(a, b) :
        Cardinality(GetReachableDTypes[i]) = Cardinality(CommonUpperBounds(a, b))}

\* C22: the shipped lattice is well formed: for every pair of DTypes whose
\* reachable sets intersect, exactly one member of the intersection has a
\* reachable set of the cardinality of the intersection, so the common-dtype
\* matrix is built without reaching the "lattice is malformed" branch.
C22_LatticeWellFormed ==
    /\ lhs \in DTypeIds =>
          /\ common # kLatticeMalformed
          /\ CommonUpperBounds(lhs, rhs) # {} =>
                /\ Cardinality(LeastOfCommonUpperBounds(lhs, rhs)) = 1
                /\ common \in LeastOfCommonUpperBounds(lhs, rhs)
    /\ \A i \in DTypeIds : \A j \in DTypeIds :
          GetMatrixImpl[i][j] # kLatticeMalformed

\* BYTES and TEXT: two common upper bounds, OBJECT and ANY, and OBJECT is the
\* one from which both are reachable
C22_Witness ==
    /\ lhs = TypeId(kBytes)
    /\ rhs = TypeId(kText)
    /\ CommonUpperBounds(lhs, rhs) = {TypeId(kObject), TypeId(kAny)}
    /\ LeastOfCommonUpperBounds(lhs, rhs) = {TypeId(kObject)}
    /\ common = TypeId(kObject)

\* the Visit* calls made for lists, dicts and objects
DataVisits ==
    {e \in ObjectVisits : e.op \in {"VisitList", "VisitDict", "VisitObject"}}

\* the clone of a visited item has a __schema__ attribute in the destination
HasClonedSchemaAttr(e) ==
    <<CloneOf(e.item).v, kSchemaAttr>> \in DOMAIN new_databag.attrs

IsSharedOrRegistered(o) ==
    HoldsObjectId(o) =>
        (IsSharedSchema(o) \/ AllocationId(o) \in DOMAIN allocation_tracker)

\* the items that the next step of the call hands to GetValue: the visited
\* item, its schema when __schema__ is written, and its children, in a
\* Visit* callback; the elements of the slice, after the traversal
ReachingGetValue ==
    IF Visiting
    THEN {Top.item}
         \cup (IF Top.is_object_schema THEN {Top.schema} ELSE {})
         \cup {p.item : p \in SeqRange(VisitArgs(Top.item, Top.schema))}
    ELSE IF pc = "running" /\ stack = <<>> THEN SeqRange(ds)
    ELSE {}

\* C24: in every DeepClone call, whatever the slice and the declared schema,
\* GetValue never fails with "new allocation ... is not found": each
\* ObjectId that reaches GetValue, during the traversal or in the final
\* mapping of the elements of the slice, is an unforked explicit schema or
\* has had its AllocationId registered by an earlier Previsit.
C24_GetValueNeverAllocationNotFound ==
    /\ result_status # kAllocationNotFound
    /\ \A o \in ReachingGetValue : IsSharedOrRegistered(o)

\* ------------------------------------------------------------------------
\* C25: a failure ends the call at once, with no rollback
\* ------------------------------------------------------------------------
\* the step in which a running call fails
FailingStep == pc = "running" /\ pc' = "failed"

Mentions(db) ==
    Subjects(db)
    \cup {db.attrs[k] : k \in DOMAIN db.attrs}
    \cup {db.schema_attrs[k] : k \in DOMAIN db.schema_attrs}
    \cup UNION {SeqRange(db.lists[l]) : l \in DOMAIN db.lists}
    \cup {k[2] : k \in DOMAIN db.dicts}
    \cup {db.dicts[k] : k \in DOMAIN db.dicts}

\* the ObjectIds of lists, dicts and plain objects among the items S
DataIds(S) == {o \in S : HoldsObjectId(o) /\ ~IsSchema(o)}

SourceDataIds ==
    DataIds(Mentions(databag) \cup Mentions(fallback) \cup SeqRange(ds))

ClonedDataIds == DataIds(Mentions(new_databag) \cup SeqRange(result_slice))

\* C26: no step of a running call, whether it succeeds or fails, changes the
\* source store or its fallback; and at every moment the list, dict and
\* object ids of the destination store and of the returned slice are
\* disjoint from those of the source stores and of the input slice.
C26_SourceReadOnlyCloneApart ==
    /\ [][pc = "running" => UNCHANGED source_vars]_vars
    /\ [](ClonedDataIds \cap SourceDataIds = {})

\* a finished clone of the list l0, read through the fallback, whose list
\* and items are in the destination under fresh ids
C26_Witness ==
    /\ pc = "done"
    /\ databag = EmptyDatabag
    /\ ds = <<l0>>
    /\ l0 \in DOMAIN fallback.lists
    /\ result_slice[1] \in DOMAIN new_databag.lists
    /\ result_slice[1] # l0
    /\ DataIds(SeqRange(new_databag.lists[result_slice[1]])) # {}
    /\ DataIds(SeqRange(fallback.lists[l0])) # {}

\* ------------------------------------------------------------------------
\* C27: the allocation tracker is write-once and injective
\* ------------------------------------------------------------------------
\* the objects of the allocations the tracker has an entry for
RegisteredObjects ==
    UNION {{ObjectByOffset(k, i) : i \in 0..(k.c - 1)} :
              k \in DOMAIN allocation_tracker}

\* the Previsit calls made on items of the allocation alloc
PrevisitsOf(alloc) ==
    {i \in 1..Len(previsit_log) :
        /\ HoldsObjectId(previsit_log[i].item)
        /\ AllocationId(previsit_log[i].item) = alloc}

\* C27: while a call runs, an entry of the allocation tracker, once made,
\* is never changed or removed by a later step; at every moment distinct
\* source allocations have distinct destination allocations, and the clone
\* map on the registered objects is injective.
C27_TrackerWriteOnceInjective ==
    /\ [][pc = "running" =>
              \A k \in DOMAIN allocation_tracker :
                  /\ k \in DOMAIN allocation_tracker'
                  /\ allocation_tracker'[k] = allocation_tracker[k]]_vars
    /\ [](/\ \A k1, k2 \in DOMAIN allocation_tracker :
                  allocation_tracker[k1] = allocation_tracker[k2] => k1 = k2
           /\ \A x, y \in RegisteredObjects :
                  Mapped(x) = Mapped(y) => x = y)

\* the allocation of o0 and o1 was Previsited several times, through
\* PrevisitObject, and an implicit schema was registered through
\* PrevisitSchema; each has one destination allocation of its own
C27_Witness ==
    /\ pc = "done"
    /\ Cardinality(PrevisitsOf(AllocO)) >= 2
    /\ \E k \in DOMAIN allocation_tracker :
          /\ k.k = "implicit"
          /\ Cardinality(PrevisitsOf(k)) >= 2
    /\ Cardinality(DOMAIN allocation_tracker) >= 3
    /\ Cardinality({allocation_tracker[k] : k \in DOMAIN allocation_tracker})
          = Cardinality(DOMAIN allocation_tracker)

\* ------------------------------------------------------------------------
\* C28: a forked allocation has the kind and the capacity of its source
\* ------------------------------------------------------------------------
\* C28: every entry of the allocation tracker maps a source allocation to a
\* destination allocation of the same kind (list, dict, plain object,
\* explicit schema, implicit schema) and of the same capacity, whichever of
\* PrevisitObject and PrevisitSchema made the entry.
C28_ForkKeepsKindAndCapacity ==
    \A k \in DOMAIN allocation_tracker :
        /\ allocation_tracker[k].k = k.k
        /\ allocation_tracker[k].c = k.c

\* ------------------------------------------------------------------------
\* CommonSchema on a slice of schema items
\* ------------------------------------------------------------------------
\* the elements a slice handed to CommonSchema is made of
SchemaIdItems ==
    {Missing, kNone, kInt32, kFloat32, kItemId, kObject, SA, SB, a0, Prim(1)}

SchemaIdSlices == UNION {[1..n -> SchemaIdItems] : n \in 0..MaxSliceSize}

\* arolla::DenseArray<DType>::ForEachPresent: the present DTypes of the slice
DTypeArray(slice) == SelectSeq(slice, LAMBDA x : x.t = "dtype")

\* arolla::DenseArray<ObjectId>::ForEachPresent: the present ObjectIds
ObjectIdArray(slice) == SelectSeq(slice, LAMBDA x : x.t = "obj")

\* the present values of every other type
OtherArray(slice) == SelectSeq(slice, LAMBDA x : x.t = "prim")

\* a default-constructed CommonSchemaAggregator, as a value
EmptyAggregator ==
    [seen_dtypes |-> {}, res_object_id |-> Missing, status |-> "ok"]

\* CommonSchemaAggregator::Add(DType)
AddDType(agg, dtype) ==
    [agg EXCEPT !.seen_dtypes = agg.seen_dtypes \cup {dtype}]

\* mutant: an ObjectId that is not a schema is taken for an entity schema
AddObjectId_AnyObjectId(agg, schema_obj) ==
    IF agg.res_object_id = Missing
    THEN [agg EXCEPT !.res_object_id = schema_obj]
    ELSE IF agg.res_object_id # schema_obj
    THEN [agg EXCEPT !.status = "no common schema"]
    ELSE agg

\* CommonSchemaAggregator::Add(ObjectId)
AddObjectId(agg, schema_obj) ==
    IF ~IsSchema(schema_obj)
    THEN [agg EXCEPT !.status = "expected a schema ObjectId"]
    ELSE IF agg.res_object_id = Missing
    THEN [agg EXCEPT !.res_object_id = schema_obj]
    ELSE IF agg.res_object_id # schema_obj
    THEN [agg EXCEPT !.status = "no common schema"]
    ELSE agg

RECURSIVE AddDTypes(_, _)
AddDTypes(agg, array) ==
    IF array = <<>> THEN agg
    ELSE AddDTypes(AddDType(agg, Head(array)), Tail(array))

RECURSIVE AddObjectIds(_, _)
AddObjectIds(agg, array) ==
    IF array = <<>> THEN agg
    ELSE AddObjectIds(AddObjectId(agg, Head(array)), Tail(array))

\* the seen DTypes by increasing DTypeId, the order of the bits of
\* seen_dtypes_
ByDTypeId(S) ==
    CHOOSE f \in Orderings(S) :
        \A i, j \in 1..Cardinality(S) : i < j => TypeId(f[i]) < TypeId(f[j])

\* CommonSchemaAggregator::Get on an aggregator value
AggregatorGet(agg) ==
    LET r == CommonDTypeAggregatorGet(ByDTypeId(agg.seen_dtypes))
        res_dtype == r.res
        st == IF r.ok THEN agg.status ELSE "no common schema"
        Returned(ok, v, error) ==
            [called |-> TRUE, ok |-> ok, v |-> v, error |-> error,
             res_dtype |-> res_dtype]
    IN IF st # "ok" THEN Returned(FALSE, Missing, st)
       ELSE IF res_dtype # Missing /\ agg.res_object_id = Missing
       THEN Returned(TRUE, res_dtype, "")
       ELSE IF (res_dtype = Missing \/ res_dtype = kNone)
               /\ agg.res_object_id # Missing
       THEN Returned(TRUE, agg.res_object_id, "")
       ELSE IF agg.res_object_id = Missing
       THEN Returned(TRUE, kObject, "")
       ELSE Returned(FALSE, Missing, "no common schema")

\* CommonSchema(schema_ids): the arrays of the slice are visited, in an order
\* the slice decides; an array of DTypes or of ObjectIds is added to a new
\* aggregator element by element, an array of any other type ends the call
\* with an error; then Get
CommonSchema ==
    /\ ~get_result.called
    /\ added = {}
    /\ \E slice \in SchemaIdSlices, dtypes_first, object_ids_first \in BOOLEAN :
          LET fails == OtherArray(slice) # <<>>
              dtypes == IF fails /\ ~dtypes_first THEN <<>>
                        ELSE DTypeArray(slice)
              object_ids == IF fails /\ ~object_ids_first THEN <<>>
                            ELSE ObjectIdArray(slice)
              agg == AddObjectIds(AddDTypes(EmptyAggregator, dtypes),
                                  object_ids)
              got == AggregatorGet(agg)
              joined == CommonDTypeAggregatorGet(ByDTypeId(agg.seen_dtypes))
          IN /\ ~fails => (dtypes_first /\ object_ids_first)
             /\ schema_ids' = slice
             /\ added' = SeqRange(dtypes) \cup SeqRange(object_ids)
             /\ seen_dtypes' = agg.seen_dtypes
             /\ res_object_id' = agg.res_object_id
             /\ status' = IF fails \/ joined.ok THEN agg.status
                          ELSE "no common schema"
             /\ get_result' =
                   IF fails
                   THEN [called |-> TRUE, ok |-> FALSE, v |-> Missing,
                         error |-> "expected Schema", res_dtype |-> Missing]
                   ELSE got
    /\ UNCHANGED <<deep_clone_vars, schema_utils_vars>>

NextCommonSchema ==
    \/ CommonSchema
    \/ CommonSchemaAggregatorAdd
    \/ CommonSchemaAggregatorGet

SpecCommonSchema == InitSchemaUtils /\ [][NextCommonSchema]_vars

\* ------------------------------------------------------------------------
\* C30: CommonSchema rejects what is not a schema
\* ------------------------------------------------------------------------
\* the messages of the errors schema_utils.cc makes with
\* absl::InvalidArgumentError
InvalidArgumentErrors ==
    {"expected Schema", "expected a schema ObjectId", "no common schema"}

\* a DType or an ObjectId of schema kind
IsSchemaItem(x) == x.t = "dtype" \/ IsSchema(x)

\* the present elements of the slice of the last CommonSchema call
PresentSchemaIds == {x \in SeqRange(schema_ids) : x # Missing}

\* C30: when a present element of the slice, or an item added to the
\* aggregator, is neither a DType nor an ObjectId of schema kind, the result
\* is an InvalidArgument error, whatever else was given; the missing
\* elements of a slice count for nothing: a slice of missing elements gives
\* OBJECT, like the empty slice, and a slice whose present elements are one
\* schema item gives that item.
C30_NonSchemaInputRejected ==
    get_result.called =>
        /\ (\E x \in added \cup PresentSchemaIds : ~IsSchemaItem(x)) =>
              /\ ~get_result.ok
              /\ get_result.error \in InvalidArgumentErrors
        /\ (schema_ids # <<>> /\ PresentSchemaIds = {}) =>
              (get_result.ok /\ get_result.v = kObject)
        /\ (\E x \in PresentSchemaIds :
                 PresentSchemaIds = {x} /\ IsSchemaItem(x)) =>
              (get_result.ok /\ get_result.v \in PresentSchemaIds)

\* a slice with a missing element, an entity schema and a plain object
C30_Witness ==
    /\ get_result.called
    /\ schema_ids = <<Missing, SA, a0>>
    /\ res_object_id = SA
    /\ ~get_result.ok
    /\ get_result.error = "expected a schema ObjectId"

\* ------------------------------------------------------------------------
\* One call on a source with cycles, run to its end: the operator is
\* synchronous, so a call that has started is not suspended
\* ------------------------------------------------------------------------
\* the source stores in which a0 refers to itself or a0 and a1 refer to each
\* other; in every store the schemas SA and SB refer to themselves and to
\* each other
InitCycles ==
    /\ Init
    /\ GetAttr(databag, fallback, a0, "next") # Missing
    /\ GetAttr(databag, fallback, a1, "next") = a0

CallOnce ==
    /\ pc = "idle"
    /\ Call

TraverseSlice ==
    \/ TraversePrimitive
    \/ TraverseObjectSchema
    \/ TraverseVisited
    \/ TraverseExpand
    \/ TraverseFail
    \/ TraverseVisitList
    \/ TraverseVisitDict
    \/ TraverseVisitObject
    \/ TraverseVisitSchema

NextOneCall ==
    \/ CallOnce
    \/ TraverseSlice
    \/ Return

FairSpec ==
    InitCycles /\ [][NextOneCall]_vars /\ WF_vars(TraverseSlice \/ Return)

\* ------------------------------------------------------------------------
\* Sequences of calls: each call is made by a DeepCloneOp of its own, on the
\* same source, and the caller keeps what it saw of the calls before
\* ------------------------------------------------------------------------
RepeatInputs ==
    { [ds |-> <<a0, a1>>, schema |-> SA],
      [ds |-> <<l0>>, schema |-> SL],
      [ds |-> <<d0>>, schema |-> SD],
      [ds |-> <<l1, o0>>, schema |-> kObject],
      [ds |-> <<SA, SB>>, schema |-> kSchema],
      [ds |-> <<I0, SD>>, schema |-> kSchema],
      [ds |-> <<a0>>, schema |-> kAny] }

\* the destination allocations a call forked
Forked(tr) == {tr[k] : k \in DOMAIN tr}

\* what the caller sees of the call that has just ended: its arguments, its
\* status, and the returned slice and the destination store with the fresh
\* ids counted from the first allocation of the call
Outcome ==
    [ds |-> ds, schema |-> schema, databag |-> databag, fallback |-> fallback,
     pc |-> pc, result_status |-> result_status,
     result_schema |-> result_schema,
     result_slice |-> NormalSlice(result_slice, allocation_tracker),
     new_databag |-> NormalDatabag(new_databag, allocation_tracker),
     forked |-> Forked(allocation_tracker)]

\* mutant: the visitor of the call before is used again
CallAgain_KeepTracker ==
    /\ pc # "running"
    /\ calls < MaxCalls
    /\ \E in \in RepeatInputs :
          /\ ds' = in.ds
          /\ schema' = in.schema
          /\ is_schema_slice' = (in.schema = kSchema)
          /\ stack' = [i \in 1..Len(in.ds) |->
                          Frame("reach", in.ds[i], in.schema, FALSE)]
    /\ earlier_calls' = IF pc = "idle" THEN earlier_calls
                         ELSE earlier_calls \cup {Outcome}
    /\ pc' = "running"
    /\ calls' = calls + 1
    /\ visited' = {}
    /\ previsit_log' = <<>>
    /\ getvalue_log' = {}
    /\ visit_log' = <<>>
    /\ visit_args' = <<>>
    /\ new_databag' = EmptyDatabag
    /\ result_slice' = <<>>
    /\ result_schema' = Missing
    /\ result_status' = kOkStatus
    /\ previous_call' = NoCall
    /\ UNCHANGED schema_vars
    /\ UNCHANGED <<source_vars, next_alloc, allocation_tracker>>

\* DeepCloneOp::operator() called first or after a call that has ended: a new
\* visitor and a new traverser, whatever the calls before
CallAgain ==
    /\ pc # "running"
    /\ calls < MaxCalls
    /\ \E in \in RepeatInputs :
          /\ ds' = in.ds
          /\ schema' = in.schema
          /\ is_schema_slice' = (in.schema = kSchema)
          /\ stack' = [i \in 1..Len(in.ds) |->
                          Frame("reach", in.ds[i], in.schema, FALSE)]
    /\ earlier_calls' = IF pc = "idle" THEN earlier_calls
                         ELSE earlier_calls \cup {Outcome}
    /\ pc' = "running"
    /\ calls' = calls + 1
    /\ visited' = {}
    /\ previsit_log' = <<>>
    /\ getvalue_log' = {}
    /\ visit_log' = <<>>
    /\ visit_args' = <<>>
    /\ allocation_tracker' = EmptyMap
    /\ new_databag' = EmptyDatabag
    /\ result_slice' = <<>>
    /\ result_schema' = Missing
    /\ result_status' = kOkStatus
    /\ previous_call' = NoCall
    /\ UNCHANGED schema_vars
    /\ UNCHANGED <<source_vars, next_alloc>>

NextCalls ==
    \/ CallAgain
    \/ TraverseSlice
    \/ Return

SpecCalls == InitCycles /\ [][NextCalls]_vars

\* the earlier calls that were given the arguments of the current call
SameCallBefore ==
    {c \in earlier_calls :
        /\ c.ds = ds
        /\ c.schema = schema
        /\ c.databag = databag
        /\ c.fallback = fallback}

\* the current call and the earlier calls fork disjoint allocations, and a
\* call that has ended agrees with every earlier call of the same arguments
ApartFromEarlierCalls ==
    /\ \A c \in earlier_calls :
           Forked(allocation_tracker) \cap c.forked = {}
    /\ \A c, d \in earlier_calls :
           (c # d) => (c.forked \cap d.forked = {})
    /\ (pc \in {"done", "failed"}) =>
           \A c \in SameCallBefore :
               /\ c.pc = pc
               /\ c.result_status = result_status
               /\ c.result_schema = result_schema
               /\ c.result_slice
                     = NormalSlice(result_slice, allocation_tracker)
               /\ c.new_databag
                     = NormalDatabag(new_databag, allocation_tracker)

====
